---- MODULE Spec2Model ----
(***************************************************************************)
(* TwitCanva: the node-generation state machine.                           *)
(*                                                                         *)
(* The client keeps a list of nodes (React state).  handleGenerate moves a *)
(* node to loading, sends a request to the backend and, when the response  *)
(* arrives, moves the node to success or error.  Two dispatchers exist in  *)
(* the repository: the handleGenerate of App.tsx and the one of the        *)
(* useGeneration hook.  The hooks useGenerationRecovery (status polling)   *)
(* and useVideoFrameExtraction (last-frame extraction) run as effects of   *)
(* every change of the node list.  The backend persists every result with  *)
(* a metadata sidecar and answers GET /generation-status/:nodeId from the  *)
(* sidecars.                                                               *)
(***************************************************************************)
EXTENDS Naturals, Sequences, FiniteSets, Bags, TLC

\* ------------------------------------------------------------------ bounds
MaxNodes == 1
MaxFiles == 2
MaxRuns == 2
MaxChecks == 1
MaxExtracts == 1
MaxGraphNodes == 3
MaxAssets == 1

NodeIds == 1..MaxNodes

\* ------------------------------------------------------------------ values
\* NodeType and NodeStatus, by their string values.
NodeTypes == {"Image", "Video", "Text"}
IDLE == "idle"
LOADING == "loading"
SUCCESS == "success"
ERROR == "error"

\* An absent optional field: resultUrl and lastFrame are tuples, messages strings.
Undefined == <<>>
NoMessage == "undefined"
\* The empty string that the inline extractVideoLastFrame of App.tsx resolves on a
\* decode error.
EmptyString == <<"">>

\* JavaScript truthiness of an optional string field.
Truthy(v) == v # Undefined /\ v # EmptyString

Prompts == {"", "a cat"}

\* The frame decoded from the video behind a url.
FrameOf(url) == <<"frame", url>>

PicsumUrl == <<"https://picsum.photos/800/600">>

\* ------------------------------------------------------------------ state
VARIABLES
    dispatcher,     \* which handleGenerate the app mounts: "App" or "useGeneration"
    nodes,          \* the node list: node id -> NodeData, over the ids in the graph
    nextNode,       \* ids handed out so far (ids are never reused)
    runs,           \* bag of handleGenerate invocations awaiting their provider or extraction
    sidecars,       \* the backend's metadata sidecars: set of [dir, id, filename]
    nextFile,       \* ids the backend has generated for files so far
    loadingNodes,   \* the loadingNodes captured by the recovery effect's interval
    checks,         \* bag of checkStatus calls in flight
    extractedNodes, \* extractedNodesRef.current
    extractions,    \* bag of extractVideoLastFrame calls started by the extraction hook
    attempts,       \* history: extraction attempts issued per node while it is in the graph
    hookAttempts,   \* history: those of them that the extraction hook issued
    editor,         \* the canvas title, selection and workflow id with the tracking hooks' state
    saves,          \* bag of handleSaveWorkflow calls awaiting the answer of the backend
    workflowFiles,  \* the backend's WORKFLOWS_DIR: workflow id -> persisted record
    nextUuid,       \* workflow ids the backend has generated so far
    last            \* history: the last step taken

vars == <<dispatcher, nodes, nextNode, runs, sidecars, nextFile, loadingNodes, checks,
          extractedNodes, extractions, attempts, hookAttempts, editor, saves,
          workflowFiles, nextUuid, last>>

Event(op, n, pre, info, url) ==
    [op |-> op, node |-> n, pre |-> pre, info |-> info, url |-> url, inputs |-> << >>,
     msg |-> "", req |-> << >>]

\* The event of a step that no property below looks at.
Quiet == Event("step", 0, "absent", "", Undefined)

StatusOf(ns, n) == IF n \in DOMAIN ns THEN ns[n].status ELSE "absent"

\* ------------------------------------------------------------------ node list
\* An update that puts the node back on the list when it is not there.
updateNodeOrAdd(ns, id, updates) ==
    IF id \in DOMAIN ns
    THEN [n \in DOMAIN ns |->
             IF n = id
             THEN [f \in DOMAIN ns[n] |->
                      IF f \in DOMAIN updates THEN updates[f] ELSE ns[n][f]]
             ELSE ns[n]]
    ELSE [n \in DOMAIN ns \cup {id} |->
             IF n = id
             THEN [f \in {"type", "prompt", "status", "resultUrl", "errorMessage",
                          "lastFrame", "parentIds", "resultAspectRatio"} |->
                      IF f \in DOMAIN updates THEN updates[f]
                      ELSE IF f = "type" THEN "Image"
                      ELSE IF f = "prompt" THEN ""
                      ELSE IF f = "errorMessage" THEN "undefined"
                      ELSE << >>]
             ELSE ns[n]]

\* An update that spreads the updates into every node of the list.
updateNodeEveryNode(ns, id, updates) ==
    [n \in DOMAIN ns |->
        [f \in DOMAIN ns[n] |-> IF f \in DOMAIN updates THEN updates[f] ELSE ns[n][f]]]

\* handleUpdateNode: setNodes(prev => prev.map(n => n.id === id ? {...n, ...updates} : n)).
updateNode(ns, id, updates) ==
    [n \in DOMAIN ns |->
        IF n = id
        THEN [f \in DOMAIN ns[n] |-> IF f \in DOMAIN updates THEN updates[f] ELSE ns[n][f]]
        ELSE ns[n]]

\* The NodeData literal of addNode.
NewNodeLoading(type) ==
    [type |-> type, prompt |-> "", status |-> LOADING, resultUrl |-> Undefined,
     errorMessage |-> NoMessage, lastFrame |-> Undefined, parentIds |-> << >>,
     resultAspectRatio |-> Undefined]

NewNode(type) ==
    [type |-> type, prompt |-> "", status |-> IDLE, resultUrl |-> Undefined,
     errorMessage |-> NoMessage, lastFrame |-> Undefined, parentIds |-> << >>,
     resultAspectRatio |-> Undefined]

\* The NodeData literal of handleContextUpload: an uploaded file becomes a node that
\* is already successful.
UploadedNode(isVideo, url) ==
    [type |-> IF isVideo THEN "Video" ELSE "Image", prompt |-> "a cat", status |-> SUCCESS,
     resultUrl |-> url, errorMessage |-> NoMessage, lastFrame |-> Undefined,
     parentIds |-> << >>, resultAspectRatio |-> Undefined]

\* ------------------------------------------------------------------ backend
\* The nodeId of a generation request as the backend reads it from req.body: the
\* params that handleGenerate passes to generateImage / generateVideo, which are what
\* JSON.stringify(params) sends, hold no nodeId.
RequestNodeId(id) == Undefined

\* saveBufferToFile: const id = customId || `${prefix}_${Date.now()}_${random}`.
saveBufferToFile(dir, prefix, customId, k) ==
    LET id == IF customId # Undefined THEN <<"node", customId[1]>> ELSE <<prefix, k>>
    IN  [dir |-> dir, id |-> id, filename |-> id, url |-> <<"library", dir, id>>]

\* The sidecar `${saved.id}.json` written beside the file (writeFileSync overwrites).
WriteSidecar(sc, saved) ==
    {m \in sc : ~(m.dir = saved.dir /\ m.id = saved.id)}
        \cup {[dir |-> saved.dir, id |-> saved.id, filename |-> saved.filename]}

DirOf(kind) == IF kind = "video" THEN "videos" ELSE "images"
PrefixOf(kind) == IF kind = "video" THEN "vid" ELSE "img"

GenerationStatusAnyFile(sc, nodeId) ==
    IF sc # {}
    THEN LET m == CHOOSE x \in sc : TRUE
         IN  [status |-> "success", resultUrl |-> <<"library", m.dir, m.filename>>]
    ELSE [status |-> "pending", resultUrl |-> Undefined]

\* GET /generation-status/:nodeId: the images sidecar first, then the videos one.
GenerationStatus(sc, nodeId) ==
    LET img == {m \in sc : m.dir = "images" /\ m.id = <<"node", nodeId>>}
        vid == {m \in sc : m.dir = "videos" /\ m.id = <<"node", nodeId>>}
    IN  IF img # {}
        THEN [status |-> "success",
              resultUrl |-> <<"library", "images", (CHOOSE m \in img : TRUE).filename>>]
        ELSE IF vid # {}
        THEN [status |-> "success",
              resultUrl |-> <<"library", "videos", (CHOOSE m \in vid : TRUE).filename>>]
        ELSE [status |-> "pending", resultUrl |-> Undefined]

\* ------------------------------------------------------------------ client service
\* Messages of the failures a generation request can end in.
ServerErrors ==
    {"provider failed", "403 Forbidden", "PERMISSION_DENIED: API key not valid",
     "Requested entity was not found."}
NetworkFailure == "Failed to fetch"
NoDataReturned == "No data returned from server"

\* An HTTP exchange as the client sees it.
Response(kind, url, msg) == [kind |-> kind, url |-> url, msg |-> msg]
NoResponse == Response("none", Undefined, "")

\* generateImage / generateVideo: the resultUrl, or the error thrown.
\*   fetch rejects                 -> the rejection is rethrown
\*   !response.ok                  -> Error(errData.error || statusText)
\*   ok but no data.resultUrl      -> Error("No ... data returned from server")
generateMediaUnchecked(resp) ==
    CASE resp.kind = "reject" -> [ok |-> FALSE, url |-> Undefined, msg |-> resp.msg]
      [] resp.kind = "error"  -> [ok |-> FALSE, url |-> Undefined, msg |-> resp.msg]
      [] OTHER                -> [ok |-> TRUE, url |-> resp.url, msg |-> ""]

generateMedia(resp) ==
    CASE resp.kind = "reject" -> [ok |-> FALSE, url |-> Undefined, msg |-> resp.msg]
      [] resp.kind = "error"  -> [ok |-> FALSE, url |-> Undefined, msg |-> resp.msg]
      [] resp.kind = "ok" /\ ~Truthy(resp.url) ->
                                 [ok |-> FALSE, url |-> Undefined, msg |-> NoDataReturned]
      [] OTHER                -> [ok |-> TRUE, url |-> resp.url, msg |-> ""]

\* The messages whose lower-cased text holds '403' / 'permission_denied' /
\* 'requested entity was not found'.
Mentions403 == {"403 Forbidden"}
MentionsPermissionDenied == {"PERMISSION_DENIED: API key not valid"}
MentionsEntityNotFound == {"Requested entity was not found."}

\* The catch block of handleGenerate in useGeneration.ts.
ErrorMessageHook(msg) ==
    IF msg \in MentionsPermissionDenied \/ msg \in Mentions403
    THEN "Permission denied. Check API Key configuration."
    ELSE IF msg = "" THEN "Generation failed" ELSE msg

\* The catch block of handleGenerate in App.tsx: the message patterns, or e.status === 403
\* (the Error objects thrown by generateImage / generateVideo carry no status).
ErrorMessageApp(msg) ==
    IF msg \in MentionsEntityNotFound \/ msg \in MentionsPermissionDenied
    THEN "Permission denied. Check your API Key."
    ELSE IF msg = "" THEN "Generation failed" ELSE msg

\* ------------------------------------------------------------------ effects
HooksMounted == dispatcher = "useGeneration"

\* useGenerationRecovery: nodes.filter(n => n.status === NodeStatus.LOADING).
LoadingNodesOf(ns) == {n \in DOMAIN ns : ns[n].status = LOADING}

\* useVideoFrameExtraction: the filter that selects the videos needing extraction.
VideosNeedingExtraction(ns, tracked) ==
    {n \in DOMAIN ns :
        /\ ns[n].type = "Video"
        /\ ns[n].status = SUCCESS
        /\ Truthy(ns[n].resultUrl)
        /\ ~Truthy(ns[n].lastFrame)
        /\ n \notin tracked}

\* The second effect of useVideoFrameExtraction: tracked ids that are no longer in
\* nodes are dropped.
ResetTracked(tracked, ns) == tracked \cap DOMAIN ns

NewCheck(n) == [node |-> n, pc |-> "sent", status |-> "", resultUrl |-> Undefined,
                job |-> Undefined]

\* One checkStatus call per captured loading node: loadingNodes.forEach(checkStatus).
checkAll(cs, targets) == cs (+) SetToBag({NewCheck(n) : n \in targets})

\* The bound on the status requests in flight: MaxChecks per node.
ChecksOf(cs, n) ==
    BagCardinality([c \in {x \in BagToSet(cs) : x.node = n} |-> CopiesIn(c, cs)])
CheckRoom(cs, targets) == \A n \in targets : ChecksOf(cs, n) < MaxChecks

Bump(count, ns, started) ==
    [n \in NodeIds |-> IF n \notin DOMAIN ns THEN 0
                       ELSE IF n \in started THEN count[n] + 1 ELSE count[n]]

\* ------------------------------------------------------------------ workflow tracking
UntitledCanvas == "Untitled Canvas"
Titles == {UntitledCanvas, "My Canvas"}

\* The state of the editor beside the node list: canvasTitle, selectedNodeIds and the
\* workflow id, isDirty with the two refs of its effect, and isSavingRef of useAutoSave.
NewEditor ==
    [canvasTitle |-> UntitledCanvas, selectedNodeIds |-> {}, workflowId |-> Undefined,
     isDirty |-> FALSE, prevNodesLength |-> 0, prevTitle |-> UntitledCanvas,
     isSavingRef |-> FALSE,
     \* the time since the effect of useAutoSave last set its interval
     sinceRestart |-> 0,
     \* history: the canvases opened so far (New canvas and load open another one), and
     \* the canvas whose save or load set workflowId
     canvas |-> 0, idCanvas |-> 0]

Length(ns) == Cardinality(DOMAIN ns)

\* The effect on [nodes.length, canvasTitle] of useWorkflowTracking, run after the
\* commit that left the editor at ed and the node list at nn.
DirtyEffect(ed, nn) ==
    IF Length(nn) # ed.prevNodesLength \/ ed.canvasTitle # ed.prevTitle
    THEN [ed EXCEPT !.isDirty = TRUE, !.prevNodesLength = Length(nn),
                    !.prevTitle = ed.canvasTitle]
    ELSE ed

\* The effect of useAutoSave on [isDirty, nodes, onSave, interval]: its cleanup clears
\* the interval and the effect sets a new one.
RestartInterval(ed) == [ed EXCEPT !.sinceRestart = 0]
OnDirtyChange(old, new) == IF new.isDirty # old.isDirty THEN RestartInterval(new) ELSE new

\* hasUnsavedChanges
hasUnsavedChanges(ed, ns) == ed.isDirty /\ Length(ns) > 0

\* A commit of the node list and of the editor state: setNodes and the other state
\* setters of one handler, then the effects that depend on them.  The recovery effect
\* re-captures the loading nodes and checks each at once; the extraction effect marks
\* and starts an extraction for each video that needs one; the tracking effect raises
\* the dirty flag.
CommitAll(nn, cs, es, ed) ==
    LET loading == LoadingNodesOf(nn)
        need == VideosNeedingExtraction(nn, extractedNodes)
    IN  /\ nodes' = nn
        /\ editor' = IF HooksMounted THEN RestartInterval(DirtyEffect(ed, nn)) ELSE ed
        /\ IF HooksMounted
           THEN /\ CheckRoom(cs, loading)
                /\ BagCardinality(es) + Cardinality(need) <= MaxExtracts
                /\ loadingNodes' = loading
                /\ checks' = checkAll(cs, loading)
                /\ extractedNodes' = ResetTracked(extractedNodes \cup need, nn)
                /\ extractions' = es (+)
                       SetToBag({[node |-> n, url |-> nn[n].resultUrl] : n \in need})
                /\ hookAttempts' = Bump(hookAttempts, nn, need)
                /\ attempts' = Bump(attempts, nn, need)
           ELSE /\ loadingNodes' = loadingNodes
                /\ checks' = cs
                /\ extractedNodes' = extractedNodes
                /\ extractions' = es
                /\ hookAttempts' = Bump(hookAttempts, nn, {})
                /\ attempts' = Bump(attempts, nn, {})

CommitFrom(nn, cs, es) == CommitAll(nn, cs, es, editor)

Commit(nn) == CommitFrom(nn, checks, extractions)

\* ------------------------------------------------------------------ canvas
Init ==
    /\ dispatcher \in {"App", "useGeneration"}
    /\ nodes = << >>
    /\ nextNode = 0
    /\ runs = EmptyBag
    /\ sidecars = {}
    /\ nextFile = 0
    /\ loadingNodes = {}
    /\ checks = EmptyBag
    /\ extractedNodes = {}
    /\ extractions = EmptyBag
    /\ attempts = [n \in NodeIds |-> 0]
    /\ hookAttempts = [n \in NodeIds |-> 0]
    /\ editor = NewEditor
    /\ saves = EmptyBag
    /\ workflowFiles = << >>
    /\ nextUuid = 0
    /\ last = Event("init", 0, "absent", "", Undefined)

Extend(ns, id, data) == [n \in DOMAIN ns \cup {id} |-> IF n = id THEN data ELSE ns[n]]

\* addNode: setNodes(prev => [...prev, newNode]) with a fresh id.
addNode(type) ==
    /\ nextNode < MaxNodes
    /\ nextNode' = nextNode + 1
    /\ Commit(Extend(nodes, nextNode + 1, NewNode(type)))
    /\ last' = Quiet
    /\ UNCHANGED <<dispatcher, runs, sidecars, nextFile, saves, workflowFiles, nextUuid>>

\* handleContextUpload, once the upload has answered: a node that is successful from
\* the start, with the url of the stored file and no lastFrame.
handleContextUpload(isVideo) ==
    /\ HooksMounted
    /\ nextNode < MaxNodes
    /\ nextFile < MaxFiles
    /\ nextNode' = nextNode + 1
    /\ nextFile' = nextFile + 1
    /\ LET url == <<"library", IF isVideo THEN "videos" ELSE "images", <<"upload", nextFile + 1>>>>
       IN  /\ Commit(Extend(nodes, nextNode + 1, UploadedNode(isVideo, url)))
           /\ last' = Quiet
    /\ UNCHANGED <<dispatcher, runs, sidecars, saves, workflowFiles, nextUuid>>

\* The prompt textarea: onUpdate(id, { prompt }).
setPrompt(n, p) ==
    /\ n \in DOMAIN nodes
    /\ nodes[n].prompt # p
    /\ Commit(updateNode(nodes, n, [prompt |-> p]))
    /\ last' = Quiet
    /\ UNCHANGED <<dispatcher, nextNode, runs, sidecars, nextFile, saves, workflowFiles,
                   nextUuid>>

\* Delete / Backspace on the selected node: setNodes(prev => prev.filter(...)).
deleteNode(n) ==
    /\ n \in DOMAIN nodes
    /\ Commit([m \in DOMAIN nodes \ {n} |-> nodes[m]])
    /\ last' = Event("deleteNode", n, nodes[n].status, "", Undefined)
    /\ UNCHANGED <<dispatcher, nextNode, runs, sidecars, nextFile, saves, workflowFiles,
                   nextUuid>>

\* ------------------------------------------------------------------ graph
\* The parent link of a node: parentId p is the list <<p>>, no parent the empty list
\* (useGeneration.ts reads the list parentIds, App.tsx the single parentId).
Parents(ns, n) == {ns[n].parentIds[i] : i \in 1..Len(ns[n].parentIds)}

\* handleSelectTypeFromMenu from the canvas menu: addNode(type, x, y) without parent.
addNodeFromMenu(type) ==
    /\ nextNode < MaxGraphNodes
    /\ nextNode' = nextNode + 1
    /\ Commit(Extend(nodes, nextNode + 1, NewNode(type)))
    /\ last' = Quiet
    /\ UNCHANGED <<dispatcher, runs, sidecars, nextFile, saves, workflowFiles, nextUuid>>

\* handleSelectAsset: a node made from an asset of the library, successful from the
\* start with the asset's url and prompt.
handleSelectAsset(isVideo, k) ==
    /\ HooksMounted
    /\ nextNode < MaxGraphNodes
    /\ nextNode' = nextNode + 1
    /\ LET url == <<"library", IF isVideo THEN "videos" ELSE "images", <<"asset", k>>>>
       IN  Commit(Extend(nodes, nextNode + 1, UploadedNode(isVideo, url)))
    /\ last' = Quiet
    /\ UNCHANGED <<dispatcher, runs, sidecars, nextFile, saves, workflowFiles, nextUuid>>

\* handleSelectTypeFromMenu on a connector, direction 'right': Source -> New.
handleAddNext(src, type) ==
    /\ src \in DOMAIN nodes
    /\ nextNode < MaxGraphNodes
    /\ nextNode' = nextNode + 1
    /\ Commit(Extend(nodes, nextNode + 1, [NewNode(type) EXCEPT !.parentIds = <<src>>]))
    /\ last' = Quiet
    /\ UNCHANGED <<dispatcher, runs, sidecars, nextFile, saves, workflowFiles, nextUuid>>

\* handleSelectTypeFromMenu on a connector, direction 'left': New -> Source; the new
\* node inherits the parent of the source and becomes the parent of the source.
handleInsertBefore(src, type) ==
    /\ src \in DOMAIN nodes
    /\ nextNode < MaxGraphNodes
    /\ nextNode' = nextNode + 1
    /\ LET new == nextNode + 1
           updatedNodes == [nodes EXCEPT ![src].parentIds = <<new>>]
       IN  Commit(Extend(updatedNodes, new,
                         [NewNode(type) EXCEPT !.parentIds = nodes[src].parentIds]))
    /\ last' = Quiet
    /\ UNCHANGED <<dispatcher, runs, sidecars, nextFile, saves, workflowFiles, nextUuid>>

\* handleGlobalPointerUp with a connection dragged from a handle of `start` and dropped
\* on `hovered` (checkHoveredNode never yields the start node): from the right handle
\* the hovered node gets start as parent, from the left handle start gets hovered.
connectionDrop(start, handle, hovered) ==
    /\ start \in DOMAIN nodes /\ hovered \in DOMAIN nodes
    /\ hovered # start
    /\ handle \in {"left", "right"}
    /\ LET child == IF handle = "right" THEN hovered ELSE start
           parent == IF handle = "right" THEN start ELSE hovered
       IN  Commit([nodes EXCEPT ![child].parentIds = <<parent>>])
    /\ last' = Quiet
    /\ UNCHANGED <<dispatcher, nextNode, runs, sidecars, nextFile, saves, workflowFiles,
                   nextUuid>>

\* Delete / Backspace on the selected connection (an edge is drawn, and can be
\* selected, only when its parent is among the nodes): parentId: undefined.
deleteConnection(child) ==
    /\ child \in DOMAIN nodes
    /\ Parents(nodes, child) \cap DOMAIN nodes # {}
    /\ Commit([nodes EXCEPT ![child].parentIds = << >>])
    /\ last' = Quiet
    /\ UNCHANGED <<dispatcher, nextNode, runs, sidecars, nextFile, saves, workflowFiles,
                   nextUuid>>

\* ------------------------------------------------------------------ dispatcher
\* The branch handleGenerate takes for a node type: useGeneration.ts has the image and
\* the video branch and nothing else; App.tsx ends in an else with a 2 s timer.
BranchOf(type) ==
    IF dispatcher = "useGeneration"
    THEN CASE type = "Image" -> "image" [] type = "Video" -> "video" [] OTHER -> "none"
    ELSE CASE type = "Image" -> "image" [] type = "Video" -> "video" [] OTHER -> "timer"

\* The first update of handleGenerate.
LoadingUpdate ==
    IF dispatcher = "useGeneration"
    THEN [status |-> LOADING]
    ELSE [status |-> LOADING, errorMessage |-> NoMessage]

\* ------------------------------------------------------------------ upstream inputs
\* while (currentId && imageBase64s.length < 14): the Gemini limit of input images.
GeminiImageLimit == 14

\* The walk up one parent chain: from currentId, the resultUrl of the first node that
\* has one; a node without one (or an id that matches no node) hands over to its first
\* parent.  The walk has no state but currentId, so it comes back to an id it has
\* visited exactly when the loop never ends ("loops").
\* A walk that looks at the direct parent only and never moves up the chain.
WalkChainDirect(ns, currentId, seen) ==
    IF currentId # Undefined /\ currentId[1] \in DOMAIN ns
                             /\ Truthy(ns[currentId[1]].resultUrl)
    THEN [kind |-> "found", url |-> ns[currentId[1]].resultUrl]
    ELSE [kind |-> "none", url |-> Undefined]

RECURSIVE WalkChain(_, _, _)
WalkChain(ns, currentId, seen) ==
    IF currentId = Undefined
    THEN [kind |-> "none", url |-> Undefined]
    ELSE LET id == currentId[1]
         IN  IF id \in seen
             THEN [kind |-> "loops", url |-> Undefined]
             ELSE IF id \in DOMAIN ns /\ Truthy(ns[id].resultUrl)
             THEN [kind |-> "found", url |-> ns[id].resultUrl]
             ELSE WalkChain(ns,
                            IF id \in DOMAIN ns /\ Len(ns[id].parentIds) > 0
                            THEN <<ns[id].parentIds[1]>> ELSE Undefined,
                            seen \cup {id})

\* A collection that walks every chain, however many images it already holds.
RECURSIVE CollectImagesNoLimit(_, _, _, _)
CollectImagesNoLimit(ns, ps, i, acc) ==
    IF i > Len(ps)
    THEN [loops |-> FALSE, images |-> acc]
    ELSE LET w == WalkChain(ns, <<ps[i]>>, {})
         IN  IF w.kind = "loops"
             THEN [loops |-> TRUE, images |-> acc]
             ELSE CollectImagesNoLimit(ns, ps, i + 1,
                                       IF w.kind = "found" THEN Append(acc, w.url)
                                       ELSE acc)

\* for (const parentId of node.parentIds): one walk per direct parent, each adding at
\* most one image; no walk starts once the limit is reached.
RECURSIVE CollectImages(_, _, _, _)
CollectImages(ns, ps, i, acc) ==
    IF i > Len(ps)
    THEN [loops |-> FALSE, images |-> acc]
    ELSE IF Len(acc) >= GeminiImageLimit
    THEN CollectImages(ns, ps, i + 1, acc)
    ELSE LET w == WalkChain(ns, <<ps[i]>>, {})
         IN  IF w.kind = "loops"
             THEN [loops |-> TRUE, images |-> acc]
             ELSE CollectImages(ns, ps, i + 1,
                                IF w.kind = "found" THEN Append(acc, w.url) ELSE acc)

\* The image branch of useGeneration.ts: imageBase64s.
UpstreamImages(ns, n) == CollectImages(ns, ns[n].parentIds, 1, << >>)

\* A video branch that sends the parent's resultUrl even when it has a lastFrame.
VideoInputResultFirst(ns, n) ==
    LET ps == ns[n].parentIds
    IN  IF Len(ps) = 0 \/ ps[1] \notin DOMAIN ns
        THEN << >>
        ELSE LET parent == ns[ps[1]]
             IN  IF Truthy(parent.resultUrl) THEN <<parent.resultUrl>>
                 ELSE IF parent.type = "Video" /\ Truthy(parent.lastFrame)
                 THEN <<parent.lastFrame>> ELSE << >>

\* The video branch: the lastFrame of a first parent that is a video and has one,
\* else the resultUrl of the first parent, else nothing.
VideoInput(ns, n) ==
    LET ps == ns[n].parentIds
    IN  IF Len(ps) = 0 \/ ps[1] \notin DOMAIN ns
        THEN << >>
        ELSE LET parent == ns[ps[1]]
             IN  IF parent.type = "Video" /\ Truthy(parent.lastFrame)
                 THEN <<parent.lastFrame>>
                 ELSE IF Truthy(parent.resultUrl) THEN <<parent.resultUrl>> ELSE << >>

\* The input images of the request for node n.  The image branch of App.tsx sends none.
RequestInputs(ns, n, kind) ==
    CASE kind = "image" /\ dispatcher = "useGeneration" -> UpstreamImages(ns, n)
      [] kind = "video" -> [loops |-> FALSE, images |-> VideoInput(ns, n)]
      [] OTHER -> [loops |-> FALSE, images |-> << >>]

NewRun(n, kind, inputs) ==
    [node |-> n, kind |-> kind, pc |-> "sent", nodeId |-> RequestNodeId(n),
     resp |-> NoResponse, inputs |-> inputs]

\* A check that returns for a missing node only and lets an empty prompt through.
EarlyReturnMissingNodeOnly(ns, id) == id \notin DOMAIN ns

\* if (!node || !node.prompt) return;
EarlyReturn(ns, id) == id \notin DOMAIN ns \/ ns[id].prompt = ""

\* handleGenerate up to its first await: the prompt check, the loading update, the
\* inputs, the request.  Nothing in it looks at the node's status.  A walk that never
\* ends keeps the handler from returning: nothing is rendered or sent any more.
handleGenerate(n) ==
    IF EarlyReturn(nodes, n)
    THEN /\ last' = Event("handleGenerate", n, StatusOf(nodes, n), "returned", Undefined)
         /\ UNCHANGED <<dispatcher, nodes, nextNode, runs, sidecars, nextFile,
                        loadingNodes, checks, extractedNodes, extractions, attempts,
                        hookAttempts, saves, workflowFiles, nextUuid, editor>>
    ELSE LET kind == BranchOf(nodes[n].type)
             req == RequestInputs(nodes, n, kind)
         IN  IF req.loops
             THEN /\ last' = Event("handleGenerate", n, nodes[n].status, "loops", Undefined)
                  /\ UNCHANGED <<dispatcher, nodes, nextNode, runs, sidecars, nextFile,
                                 loadingNodes, checks, extractedNodes, extractions,
                                 attempts, hookAttempts, saves, workflowFiles, nextUuid,
                                 editor>>
             ELSE /\ kind # "none" => BagCardinality(runs) < MaxRuns
                  /\ runs' = IF kind = "none" THEN runs
                             ELSE runs (+) SetToBag({NewRun(n, kind, req.images)})
                  /\ Commit(updateNode(nodes, n, LoadingUpdate))
                  /\ last' = [Event("handleGenerate", n, nodes[n].status, kind, Undefined)
                                  EXCEPT !.inputs = req.images]
                  /\ UNCHANGED <<dispatcher, nextNode, sidecars, nextFile, saves,
                                 workflowFiles, nextUuid>>

Without(bag, e) == bag (-) SetToBag({e})
Replace(bag, e, f) == (bag (-) SetToBag({e})) (+) SetToBag({f})

\* POST /generate-image, /generate-video when the provider delivers: the result is
\* saved under the request's nodeId or a generated id, the sidecar written, and
\* { resultUrl: saved.url } answered.
ServerSucceeds(r) ==
    /\ r.pc = "sent" /\ r.kind \in {"image", "video"}
    /\ r.nodeId = Undefined => nextFile < MaxFiles
    /\ nextFile' = IF r.nodeId = Undefined THEN nextFile + 1 ELSE nextFile
    /\ LET saved == saveBufferToFile(DirOf(r.kind), PrefixOf(r.kind), r.nodeId, nextFile + 1)
       IN  /\ sidecars' = WriteSidecar(sidecars, saved)
           /\ runs' = Replace(runs, r, [r EXCEPT !.pc = "resp",
                                                !.resp = Response("ok", saved.url, "")])
    /\ last' = Quiet
    /\ UNCHANGED <<dispatcher, nodes, nextNode, loadingNodes, checks, extractedNodes,
                   extractions, attempts, hookAttempts, saves, workflowFiles, nextUuid,
                   editor>>

\* The same routes when the provider fails, times out or a key is missing: status 500
\* with { error }.
ServerFails(r, msg) ==
    /\ r.pc = "sent" /\ r.kind \in {"image", "video"}
    /\ runs' = Replace(runs, r, [r EXCEPT !.pc = "resp",
                                         !.resp = Response("error", Undefined, msg)])
    /\ last' = Quiet
    /\ UNCHANGED <<dispatcher, nodes, nextNode, sidecars, nextFile, loadingNodes, checks,
                   extractedNodes, extractions, attempts, hookAttempts, saves,
                   workflowFiles, nextUuid, editor>>

\* A 2xx answer whose body holds no resultUrl.
MalformedResponse(r) ==
    /\ r.pc = "sent" /\ r.kind \in {"image", "video"}
    /\ runs' = Replace(runs, r, [r EXCEPT !.pc = "resp",
                                         !.resp = Response("ok", Undefined, "")])
    /\ last' = Quiet
    /\ UNCHANGED <<dispatcher, nodes, nextNode, sidecars, nextFile, loadingNodes, checks,
                   extractedNodes, extractions, attempts, hookAttempts, saves,
                   workflowFiles, nextUuid, editor>>

\* The catch block of handleGenerate.
CatchUpdate(msg) ==
    [status |-> ERROR,
     errorMessage |-> IF dispatcher = "useGeneration" THEN ErrorMessageHook(msg)
                      ELSE ErrorMessageApp(msg)]

\* Whether an exchange delivered a result (history: what happened, whatever the client
\* makes of it).
Delivered(resp) == resp.kind = "ok" /\ Truthy(resp.url)

\* handleGenerate after await generateImage / generateVideo, for the exchange `resp`:
\* the image branch updates the node, the video branch goes on to extract the last
\* frame, a throw of the service call reaches the catch block.
Continue(r, resp, op) ==
    LET res == generateMedia(resp)
        pre == StatusOf(nodes, r.node)
        how == IF Delivered(resp) THEN "delivered" ELSE "failed"
    IN  IF ~res.ok
        THEN /\ runs' = Without(runs, r)
             /\ Commit(updateNode(nodes, r.node, CatchUpdate(res.msg)))
             /\ last' = [Event(op, r.node, pre, how, Undefined) EXCEPT !.msg = res.msg]
        ELSE IF r.kind = "image"
        THEN /\ runs' = Without(runs, r)
             /\ Commit(updateNode(nodes, r.node,
                                  [status |-> SUCCESS, resultUrl |-> res.url]))
             /\ last' = Event(op, r.node, pre, how, res.url)
        ELSE /\ runs' = Replace(runs, r, [r EXCEPT !.pc = "extract", !.resp = resp])
             /\ attempts' = Bump(attempts, nodes, {r.node})
             /\ last' = Event(op, r.node, pre, how, res.url)
             /\ UNCHANGED <<nodes, loadingNodes, checks, extractedNodes, extractions,
                            hookAttempts, editor>>

\* The response of the generation request reaches the client.
ResponseArrives(r) ==
    /\ r.pc = "resp"
    /\ Continue(r, r.resp, "response")
    /\ UNCHANGED <<dispatcher, nextNode, sidecars, nextFile, saves, workflowFiles,
                   nextUuid>>

\* fetch rejects: the request or its response is lost on the way.
NetworkError(r) ==
    /\ r.pc \in {"sent", "resp"} /\ r.kind \in {"image", "video"}
    /\ Continue(r, Response("reject", Undefined, NetworkFailure), "networkError")
    /\ UNCHANGED <<dispatcher, nextNode, sidecars, nextFile, saves, workflowFiles,
                   nextUuid>>

\* What extractVideoLastFrame can end in.  The inline one of App.tsx resolves the frame,
\* or '' when the video or the canvas fails; it never rejects.
ExtractOutcomesApp == {"frame", "empty"}
\* The one of utils/videoHelpers, which the hooks import: the frame, '' as above, or a
\* rejection (the failure that useVideoFrameExtraction catches and logs).
ExtractOutcomesHelper == {"frame", "empty", "reject"}
ExtractionFailure == "Failed to extract last frame"

\* The video branch of handleGenerate after await extractVideoLastFrame(resultUrl).
\* useGeneration.ts awaits it inside the try of the whole run; App.tsx wraps it in a try
\* of its own and goes on with lastFrame as it is.
ExtractionUpdate(url, outcome) ==
    IF dispatcher = "useGeneration"
    THEN IF outcome = "reject"
         THEN CatchUpdate(ExtractionFailure)
         ELSE [status |-> SUCCESS, resultUrl |-> url,
               lastFrame |-> IF outcome = "frame" THEN FrameOf(url) ELSE EmptyString]
    ELSE [status |-> SUCCESS, resultUrl |-> url,
          lastFrame |-> IF outcome = "frame" THEN FrameOf(url) ELSE EmptyString]

ExtractionEnds(r, outcome) ==
    /\ r.pc = "extract"
    /\ outcome \in (IF dispatcher = "useGeneration" THEN ExtractOutcomesHelper
                    ELSE ExtractOutcomesApp)
    /\ runs' = Without(runs, r)
    /\ Commit(updateNode(nodes, r.node, ExtractionUpdate(r.resp.url, outcome)))
    /\ last' = Event("extractionEnds", r.node, StatusOf(nodes, r.node), outcome, r.resp.url)
    /\ UNCHANGED <<dispatcher, nextNode, sidecars, nextFile, saves, workflowFiles,
                   nextUuid>>

\* The else branch of App.tsx: setTimeout(() => handleUpdateNode(id, {SUCCESS, picsum}), 2000).
TimerFires(r) ==
    /\ r.kind = "timer"
    /\ runs' = Without(runs, r)
    /\ Commit(updateNode(nodes, r.node, [status |-> SUCCESS, resultUrl |-> PicsumUrl]))
    /\ last' = Event("timerFires", r.node, StatusOf(nodes, r.node), "succeeded", PicsumUrl)
    /\ UNCHANGED <<dispatcher, nextNode, sidecars, nextFile, saves, workflowFiles,
                   nextUuid>>

\* ------------------------------------------------------------------ recovery
\* setInterval(checkAll, 10000): armed while the captured loadingNodes is not empty.
Tick ==
    /\ HooksMounted
    /\ loadingNodes # {}
    /\ CheckRoom(checks, loadingNodes)
    /\ checks' = checkAll(checks, loadingNodes)
    /\ last' = Quiet
    /\ UNCHANGED <<dispatcher, nodes, nextNode, runs, sidecars, nextFile, loadingNodes,
                   extractedNodes, extractions, attempts, hookAttempts, saves,
                   workflowFiles, nextUuid, editor>>

\* The result of a job of node n that the backend has persisted and whose response the
\* client has not received (history, for the checks served meanwhile).
PersistedJobOf(n) ==
    LET done == {r \in BagToSet(runs) :
                    r.node = n /\ r.pc = "resp" /\ r.resp.kind = "ok" /\ Truthy(r.resp.url)}
    IN  IF done = {} THEN Undefined ELSE (CHOOSE r \in done : TRUE).resp.url

\* The backend answers a status request from the sidecars it holds.
CheckServed(c) ==
    /\ c.pc = "sent"
    /\ LET st == GenerationStatus(sidecars, c.node)
       IN  checks' = Replace(checks, c, [c EXCEPT !.pc = "resp", !.status = st.status,
                                                  !.resultUrl = st.resultUrl,
                                                  !.job = PersistedJobOf(c.node)])
    /\ last' = Quiet
    /\ UNCHANGED <<dispatcher, nodes, nextNode, runs, sidecars, nextFile, loadingNodes,
                   extractedNodes, extractions, attempts, hookAttempts, saves,
                   workflowFiles, nextUuid, editor>>

\* The catch of the status route: status 500.
CheckServerError(c) ==
    /\ c.pc = "sent"
    /\ checks' = Replace(checks, c, [c EXCEPT !.pc = "resp", !.status = "error500",
                                               !.job = PersistedJobOf(c.node)])
    /\ last' = Quiet
    /\ UNCHANGED <<dispatcher, nodes, nextNode, runs, sidecars, nextFile, loadingNodes,
                   extractedNodes, extractions, attempts, hookAttempts, saves,
                   workflowFiles, nextUuid, editor>>

RecoveryFoundAlways(c) == TRUE

RecoveryFoundOnAnswer(c) == c.status \in {"success", "pending"}

\* checkStatus: the conditions under which it updates the node:
\* response.ok && data.status === 'success' && data.resultUrl.
RecoveryFound(c) == c.status = "success" /\ Truthy(c.resultUrl)

\* checkStatus after await fetch(...): the update on a found result, nothing otherwise.
CheckAnswered(c) ==
    /\ c.pc = "resp"
    /\ IF RecoveryFound(c)
       THEN CommitFrom(updateNode(nodes, c.node,
                           [status |-> SUCCESS, resultUrl |-> c.resultUrl,
                            errorMessage |-> NoMessage]),
                       Without(checks, c), extractions)
       ELSE /\ checks' = Without(checks, c)
            /\ UNCHANGED <<nodes, loadingNodes, extractedNodes, extractions, attempts,
                           hookAttempts, editor>>
    /\ last' = Event("checkStatus", c.node, StatusOf(nodes, c.node), c.status, c.job)
    /\ UNCHANGED <<dispatcher, nextNode, runs, sidecars, nextFile, saves, workflowFiles,
                   nextUuid>>

\* fetch rejects (network error): the catch of checkStatus logs and returns.
CheckFails(c) ==
    /\ checks' = Without(checks, c)
    /\ last' = Event("checkStatus", c.node, StatusOf(nodes, c.node), "reject",
                     IF c.pc = "sent" THEN PersistedJobOf(c.node) ELSE c.job)
    /\ UNCHANGED <<dispatcher, nodes, nextNode, runs, sidecars, nextFile, loadingNodes,
                   extractedNodes, extractions, attempts, hookAttempts, saves,
                   workflowFiles, nextUuid, editor>>

\* ------------------------------------------------------------------ frame extraction hook
\* useVideoFrameExtraction after await extractVideoLastFrame(node.resultUrl): the frame
\* is written to the node; a rejection is logged and the node stays tracked.
HookExtractionEnds(e, outcome) ==
    /\ outcome \in ExtractOutcomesHelper
    /\ IF outcome # "reject"
       THEN CommitFrom(updateNode(nodes, e.node,
                           [lastFrame |-> IF outcome = "frame" THEN FrameOf(e.url)
                                          ELSE EmptyString]),
                       checks, Without(extractions, e))
       ELSE /\ extractions' = Without(extractions, e)
            /\ UNCHANGED <<nodes, loadingNodes, checks, extractedNodes, attempts,
                           hookAttempts, editor>>
    /\ last' = Event("hookExtractionEnds", e.node, StatusOf(nodes, e.node), outcome, e.url)
    /\ UNCHANGED <<dispatcher, nextNode, runs, sidecars, nextFile, saves, workflowFiles,
                   nextUuid>>

\* ------------------------------------------------------------------ specification
Next ==
    \/ \E t \in NodeTypes : addNode(t)
    \/ \E v \in BOOLEAN : handleContextUpload(v)
    \/ \E n \in DOMAIN nodes, p \in Prompts : setPrompt(n, p)
    \/ \E n \in DOMAIN nodes : deleteNode(n)
    \/ \E n \in 1..nextNode : handleGenerate(n)
    \/ \E r \in BagToSet(runs) : ServerSucceeds(r)
    \/ \E r \in BagToSet(runs), m \in ServerErrors : ServerFails(r, m)
    \/ \E r \in BagToSet(runs) : MalformedResponse(r)
    \/ \E r \in BagToSet(runs) : ResponseArrives(r)
    \/ \E r \in BagToSet(runs) : NetworkError(r)
    \/ \E r \in BagToSet(runs), o \in ExtractOutcomesApp \cup ExtractOutcomesHelper :
           ExtractionEnds(r, o)
    \/ \E r \in BagToSet(runs) : TimerFires(r)
    \/ Tick
    \/ \E c \in BagToSet(checks) : CheckServed(c)
    \/ \E c \in BagToSet(checks) : CheckServerError(c)
    \/ \E c \in BagToSet(checks) : CheckAnswered(c)
    \/ \E c \in BagToSet(checks) : CheckFails(c)
    \/ \E e \in BagToSet(extractions), o \in ExtractOutcomesHelper :
           HookExtractionEnds(e, o)

Spec == Init /\ [][Next]_vars

\* The types picked from the menus in the graph specification.
MenuTypes == {"Text", "Image"}

\* The canvas with its graph operations: up to MaxGraphNodes nodes, connected and
\* disconnected at will, and generations dispatched on them.
GraphNext ==
    \/ \E t \in MenuTypes : addNodeFromMenu(t)
    \/ \E v \in BOOLEAN, k \in 1..MaxAssets : handleSelectAsset(v, k)
    \/ \E n \in DOMAIN nodes, t \in MenuTypes : handleAddNext(n, t)
    \/ \E n \in DOMAIN nodes, t \in MenuTypes : handleInsertBefore(n, t)
    \/ \E n, m \in DOMAIN nodes, h \in {"left", "right"} : connectionDrop(n, h, m)
    \/ \E n \in DOMAIN nodes : deleteConnection(n)
    \/ \E n \in DOMAIN nodes : deleteNode(n)
    \/ \E n \in 1..nextNode : handleGenerate(n)
    \/ \E e \in BagToSet(extractions), o \in ExtractOutcomesHelper :
           HookExtractionEnds(e, o)

GraphSpec == Init /\ [][GraphNext]_vars

\* ------------------------------------------------------------------ provider selection
\* A model id is the list of its parts between hyphens: 'kling-v2-6' is
\* <<"kling", "v2", "6">>, a missing id the empty list.
KlingV21 == <<"kling", "v2", "1">>
KlingV26 == <<"kling", "v2", "6">>
ModelIds ==
    {<< >>, <<"kling">>, KlingV21, KlingV26, <<"hailuo", "02">>,
     <<"gpt", "image", "1.5">>, <<"gpt", "4o">>, <<"veo", "3.1", "fast">>}

\* model && model.startsWith('kling-') and the like.
StartsWithKling(m) == Len(m) >= 2 /\ m[1] = "kling"
StartsWithHailuo(m) == Len(m) >= 2 /\ m[1] = "hailuo"
StartsWithGptImage(m) == Len(m) >= 3 /\ m[1] = "gpt" /\ m[2] = "image"

\* req.app.locals: the keys of the .env file; all of them, or all but one of two.
AllKeys ==
    {"KLING_ACCESS_KEY", "KLING_SECRET_KEY", "OPENAI_API_KEY", "GEMINI_API_KEY",
     "HAILUO_API_KEY", "FAL_API_KEY"}
KeySets == {AllKeys, AllKeys \ {"KLING_SECRET_KEY"}, AllKeys \ {"FAL_API_KEY"}}

\* A Kling branch that asks for the access key alone.
KeysOfAccessKeyOnly(adapter) ==
    CASE adapter = "kling"  -> {"KLING_ACCESS_KEY"}
      [] adapter = "fal"    -> {"FAL_API_KEY"}
      [] adapter = "hailuo" -> {"HAILUO_API_KEY"}
      [] adapter = "openai" -> {"OPENAI_API_KEY"}
      [] OTHER              -> {"GEMINI_API_KEY"}

\* The keys each branch of the routes asks for before it calls its service.
KeysOf(adapter) ==
    CASE adapter = "kling"  -> {"KLING_ACCESS_KEY", "KLING_SECRET_KEY"}
      [] adapter = "fal"    -> {"FAL_API_KEY"}
      [] adapter = "hailuo" -> {"HAILUO_API_KEY"}
      [] adapter = "openai" -> {"OPENAI_API_KEY"}
      [] OTHER              -> {"GEMINI_API_KEY"}

\* The error each branch answers with status 500 when one of its keys is missing.
SetupInstruction(adapter) ==
    CASE adapter = "kling" ->
             "Kling API credentials not configured. Add KLING_ACCESS_KEY and KLING_SECRET_KEY to .env"
      [] adapter = "fal" ->
             "FAL_API_KEY not configured. Add FAL_API_KEY to .env for Kling 2.6 Motion Control."
      [] adapter = "hailuo" -> "Hailuo API key not configured. Add HAILUO_API_KEY to .env"
      [] adapter = "openai" -> "OpenAI API key not configured. Add OPENAI_API_KEY to .env"
      [] OTHER -> "Server missing API Key config"

\* The branch of POST /generate-image that serves imageModel.
ImageAdapter(model) ==
    IF StartsWithKling(model) THEN "kling"
    ELSE IF StartsWithGptImage(model) THEN "openai"
    ELSE "gemini"

\* What resolveImageToBase64 makes of the motionReferenceUrl of the request.
MotionReferences == {"absent", "unresolved", "resolved"}

\* A video route that looks at the prefix of the model id and at nothing else.
VideoAdapterPrefixOnly(model, motion) ==
    IF StartsWithKling(model) THEN "kling"
    ELSE IF StartsWithHailuo(model) THEN "hailuo"
    ELSE "veo"

\* The branch of POST /generate-video that serves videoModel: inside the Kling branch
\* kling-v2-6 with a motion reference goes to fal.ai.
VideoAdapter(model, motion) ==
    IF StartsWithKling(model)
    THEN IF model = KlingV26 /\ motion = "resolved" THEN "fal" ELSE "kling"
    ELSE IF StartsWithHailuo(model) THEN "hailuo"
    ELSE "veo"

\* The input images of an image request: for each supplied image, in order, whether
\* resolveImageToBase64 resolves it.  An image is named by its place in the request.
MaxImages == 5
MaxUnresolved == 1
Unresolved(l) == Cardinality({i \in 1..Len(l) : ~l[i]})
RECURSIVE ImageLists(_)
ImageLists(k) ==
    IF k = 0 THEN {<< >>}
    ELSE LET shorter == ImageLists(k - 1)
             longer == {Append(l, b) : l \in {x \in shorter : Len(x) = k - 1},
                                       b \in BOOLEAN}
         IN  shorter \cup {l \in longer : Unresolved(l) <= MaxUnresolved}

\* rawImages.map(img => resolveImageToBase64(img)).filter(Boolean): the places of the
\* images that resolve, in order.
RECURSIVE ResolvedFrom(_, _)
ResolvedFrom(images, i) ==
    IF i > Len(images) THEN << >>
    ELSE IF images[i] THEN <<i>> \o ResolvedFrom(images, i + 1)
    ELSE ResolvedFrom(images, i + 1)

resolvedImages(images) == ResolvedFrom(images, 1)

\* subjectImages.slice(0, 4)
KlingSubjectLimit == 4
Slice(seq, n) == SubSeq(seq, 1, IF Len(seq) < n THEN Len(seq) ELSE n)

\* A Kling branch that submits one single-image task per subject image.
KlingImageTasksOnePerImage(resolved) ==
    [i \in 1..Len(resolved) |-> [endpoint |-> "generations", images |-> <<resolved[i]>>]]

\* The tasks the Kling branch of POST /generate-image submits (each is polled by its
\* own poll cycle): generateKlingMultiImage for more than one resolved image, else
\* generateKlingImage, which sends the first image if there is one.
KlingImageTasks(resolved) ==
    IF Len(resolved) > 1
    THEN <<[endpoint |-> "multi-image2image",
            images |-> Slice(resolved, KlingSubjectLimit)]>>
    ELSE <<[endpoint |-> "generations", images |-> Slice(resolved, 1)]>>

\* The tasks of an image request, per adapter (OpenAI and Gemini take the whole list
\* in one call).
ImageTasks(adapter, resolved) ==
    IF adapter = "kling" THEN KlingImageTasks(resolved)
    ELSE <<[endpoint |-> adapter, images |-> resolved]>>

RouteEvent(op, adapter, url, tasks, request) ==
    [Event(op, 0, "absent", adapter, url) EXCEPT !.inputs = tasks, !.req = request]

\* The rest of a route once its adapter is chosen: 500 when a key is missing, else the
\* provider call; its result is saved to the library with a sidecar, its failure is
\* answered with 500.
Serve(op, kind, adapter, tasks, request, providerOk) ==
    IF ~(KeysOf(adapter) \subseteq request.keys)
    THEN /\ last' = [RouteEvent(op, "none", Undefined, << >>, request)
                         EXCEPT !.msg = SetupInstruction(adapter)]
         /\ UNCHANGED <<sidecars, nextFile>>
    ELSE IF ~providerOk
    THEN /\ last' = RouteEvent(op, adapter, Undefined, tasks, request)
         /\ UNCHANGED <<sidecars, nextFile>>
    ELSE /\ nextFile < MaxFiles
         /\ nextFile' = nextFile + 1
         /\ LET saved == saveBufferToFile(DirOf(kind), PrefixOf(kind),
                                          RequestNodeId(0), nextFile + 1)
            IN  /\ sidecars' = WriteSidecar(sidecars, saved)
                /\ last' = RouteEvent(op, adapter, saved.url, tasks, request)

\* POST /generate-image
postGenerateImage(model, images, keys, providerOk) ==
    LET request == [route |-> "image", model |-> model, images |-> images,
                    motion |-> "absent", keys |-> keys]
        adapter == ImageAdapter(model)
    IN  /\ Serve("generate-image", "image", adapter,
                 ImageTasks(adapter, resolvedImages(images)), request, providerOk)
        /\ UNCHANGED <<dispatcher, nodes, nextNode, runs, loadingNodes, checks,
                       extractedNodes, extractions, attempts, hookAttempts, saves,
                       workflowFiles, nextUuid, editor>>

\* POST /generate-video
postGenerateVideo(model, motion, keys, providerOk) ==
    LET request == [route |-> "video", model |-> model, images |-> << >>,
                    motion |-> motion, keys |-> keys]
        adapter == VideoAdapter(model, motion)
    IN  /\ Serve("generate-video", "video", adapter,
                 <<[endpoint |-> adapter, images |-> << >>]>>, request, providerOk)
        /\ UNCHANGED <<dispatcher, nodes, nextNode, runs, loadingNodes, checks,
                       extractedNodes, extractions, attempts, hookAttempts, saves,
                       workflowFiles, nextUuid, editor>>

RouteNext ==
    \/ \E m \in ModelIds, l \in ImageLists(MaxImages), k \in KeySets, ok \in BOOLEAN :
           postGenerateImage(m, l, k, ok)
    \/ \E m \in ModelIds, r \in MotionReferences, k \in KeySets, ok \in BOOLEAN :
           postGenerateVideo(m, r, k, ok)

RouteSpec == Init /\ [][RouteNext]_vars

\* ------------------------------------------------------------------ workflow store
\* The workflow routes of the backend.  A persisted record is the request body as
\* written to `${id}.json`: id, title, nodes, coverUrl (the time stamps are left
\* out).  crypto.randomUUID() is the next unused number.
MaxWorkflows == 2
CoverUrls == {<<"library", "assets", "x.png">>, <<"library", "assets", "y.png">>}
CoverInputs == {Undefined} \cup CoverUrls

WorkflowBody(id, title, ns, coverUrl) ==
    [id |-> id, title |-> title, nodes |-> ns, coverUrl |-> coverUrl]

\* The node lists of the bodies that arrive from any client.
NodeLists == {<< >>, Extend(<< >>, 1, NewNode("Image"))}

\* The ids a client can send: none, or one the backend has handed out.
KnownIds == {Undefined} \cup {<<i>> : i \in 1..nextUuid}

\* A save that writes the body as it was sent.
PersistedAsSent(files, workflow) == workflow

\* POST /api/workflows, the record written for the body `workflow` (its id filled in):
\* the coverUrl of the existing file, when it has one, replaces the one of the body.
Persisted(files, workflow) ==
    IF workflow.id[1] \in DOMAIN files /\ Truthy(files[workflow.id[1]].coverUrl)
    THEN [workflow EXCEPT !.coverUrl = files[workflow.id[1]].coverUrl]
    ELSE workflow

\* The files after POST /api/workflows with the body `workflow`, answered with id k.
SaveWorkflow(files, workflow, k) ==
    LET withId == [workflow EXCEPT !.id = <<k>>]
    IN  Extend(files, k, Persisted(files, withId))

\* The id of the answer: if (!workflow.id) workflow.id = crypto.randomUUID().
AnswerId(workflow) == IF workflow.id = Undefined THEN nextUuid + 1 ELSE workflow.id[1]

StoreEvent(op, id, info, request) ==
    [Event(op, id, "absent", info, Undefined) EXCEPT !.req = request]

ClientVars ==
    <<dispatcher, nodes, nextNode, runs, sidecars, nextFile, loadingNodes, checks,
      extractedNodes, extractions, attempts, hookAttempts, editor, saves>>

\* POST /api/workflows
postWorkflow(workflow) ==
    /\ workflow.id = Undefined => nextUuid < MaxWorkflows
    /\ nextUuid' = IF workflow.id = Undefined THEN nextUuid + 1 ELSE nextUuid
    /\ workflowFiles' = SaveWorkflow(workflowFiles, workflow, AnswerId(workflow))
    /\ last' = StoreEvent("postWorkflow", AnswerId(workflow), "ok", workflow)
    /\ UNCHANGED ClientVars

\* PUT /api/workflows/:id/cover
putWorkflowCover(id, coverUrl) ==
    /\ IF id \in DOMAIN workflowFiles
       THEN /\ workflowFiles' = [workflowFiles EXCEPT ![id].coverUrl = coverUrl]
            /\ last' = StoreEvent("putWorkflowCover", id, "ok", [coverUrl |-> coverUrl])
       ELSE /\ workflowFiles' = workflowFiles
            /\ last' = StoreEvent("putWorkflowCover", id, "404", [coverUrl |-> coverUrl])
    /\ UNCHANGED nextUuid
    /\ UNCHANGED ClientVars

\* DELETE /api/workflows/:id
deleteWorkflow(id) ==
    /\ IF id \in DOMAIN workflowFiles
       THEN /\ workflowFiles' = [i \in DOMAIN workflowFiles \ {id} |-> workflowFiles[i]]
            /\ last' = StoreEvent("deleteWorkflow", id, "ok", << >>)
       ELSE /\ workflowFiles' = workflowFiles
            /\ last' = StoreEvent("deleteWorkflow", id, "404", << >>)
    /\ UNCHANGED nextUuid
    /\ UNCHANGED ClientVars

StoreNext ==
    \/ \E id \in KnownIds, t \in Titles, ns \in NodeLists, u \in CoverInputs :
           postWorkflow(WorkflowBody(id, t, ns, u))
    \/ \E id \in 1..MaxWorkflows, u \in CoverInputs : putWorkflowCover(id, u)
    \/ \E id \in 1..MaxWorkflows : deleteWorkflow(id)

StoreSpec == Init /\ [][StoreNext]_vars

\* ------------------------------------------------------------------ save, load, new
MaxSaves == 2
MaxCanvases == 1

ServerVars == <<sidecars, nextFile>>
GenerationVars == <<dispatcher, nextNode, runs>>

EditorEvent(op, id, info) == Event(op, id, "absent", info, Undefined)

\* handleSaveWorkflow up to its request: POST /api/workflows with the workflow id, the
\* title and the nodes of the render it was called in.
NewSave(origin, ed, ns) ==
    [origin |-> origin, pc |-> "sent", canvas |-> ed.canvas, id |-> 0,
     body |-> WorkflowBody(ed.workflowId, ed.canvasTitle, ns, Undefined)]

\* handleNewCanvas from the editor state ed.
Reset(ed) ==
    [ed EXCEPT !.canvasTitle = UntitledCanvas, !.selectedNodeIds = {},
               !.workflowId = Undefined, !.isDirty = FALSE,
               !.canvas = @ + 1, !.idCanvas = @]

\* handleTitleBlur / handleTitleKeyDown: setCanvasTitle.
setCanvasTitle(t) ==
    /\ HooksMounted
    /\ t # editor.canvasTitle
    /\ editor' = OnDirtyChange(editor,
                               DirtyEffect([editor EXCEPT !.canvasTitle = t], nodes))
    /\ last' = EditorEvent("setCanvasTitle", 0, "")
    /\ UNCHANGED <<nodes, loadingNodes, checks, extractedNodes, extractions, attempts,
                   hookAttempts, saves, workflowFiles, nextUuid>>
    /\ UNCHANGED <<GenerationVars, ServerVars>>

\* The end of a selection box: setSelectedNodeIds(selectedIds).
selectNodes(S) ==
    /\ HooksMounted
    /\ S # editor.selectedNodeIds
    /\ editor' = [editor EXCEPT !.selectedNodeIds = S]
    /\ last' = Quiet
    /\ UNCHANGED <<nodes, loadingNodes, checks, extractedNodes, extractions, attempts,
                   hookAttempts, saves, workflowFiles, nextUuid>>
    /\ UNCHANGED <<GenerationVars, ServerVars>>

\* The Save button of the top bar: onSave, which is handleSaveWithTracking.
saveButton ==
    /\ HooksMounted
    /\ BagCardinality(saves) < MaxSaves
    /\ saves' = saves (+) SetToBag({NewSave("button", editor, nodes)})
    /\ last' = EditorEvent("saveButton", 0, "started")
    /\ UNCHANGED <<nodes, loadingNodes, checks, extractedNodes, extractions, attempts,
                   hookAttempts, editor, workflowFiles, nextUuid>>
    /\ UNCHANGED <<GenerationVars, ServerVars>>

\* checkAndSave: if (!isDirty || nodes.length === 0) return; if (isSavingRef.current)
\* return.
TickReturns(ed, ns) == ~ed.isDirty \/ Length(ns) = 0 \/ ed.isSavingRef

\* A tick of the interval of useAutoSave: checkAndSave up to await onSave().
autoSaveTick ==
    /\ HooksMounted
    /\ IF TickReturns(editor, nodes)
       THEN /\ last' = EditorEvent("autoSaveTick", 0, "returned")
            /\ UNCHANGED <<editor, saves>>
       ELSE /\ BagCardinality(saves) < MaxSaves
            /\ editor' = [editor EXCEPT !.isSavingRef = TRUE]
            /\ saves' = saves (+) SetToBag({NewSave("auto", editor, nodes)})
            /\ last' = EditorEvent("autoSaveTick", 0, "started")
    /\ UNCHANGED <<nodes, loadingNodes, checks, extractedNodes, extractions, attempts,
                   hookAttempts, workflowFiles, nextUuid>>
    /\ UNCHANGED <<GenerationVars, ServerVars>>

\* The backend serves the request of a save.
saveServed(s) ==
    /\ s.pc = "sent"
    /\ s.body.id = Undefined => nextUuid < MaxWorkflows
    /\ nextUuid' = IF s.body.id = Undefined THEN nextUuid + 1 ELSE nextUuid
    /\ workflowFiles' = SaveWorkflow(workflowFiles, s.body, AnswerId(s.body))
    /\ saves' = Replace(saves, s, [s EXCEPT !.pc = "saved", !.id = AnswerId(s.body)])
    /\ last' = Quiet
    /\ UNCHANGED <<nodes, loadingNodes, checks, extractedNodes, extractions, attempts,
                   hookAttempts, editor>>
    /\ UNCHANGED <<GenerationVars, ServerVars>>

\* The request of a save is lost or answered with an error.
saveRejected(s) ==
    /\ s.pc = "sent"
    /\ saves' = Replace(saves, s, [s EXCEPT !.pc = "failed"])
    /\ last' = Quiet
    /\ UNCHANGED <<nodes, loadingNodes, checks, extractedNodes, extractions, attempts,
                   hookAttempts, editor, workflowFiles, nextUuid>>
    /\ UNCHANGED <<GenerationVars, ServerVars>>

\* A checkAndSave whose finally block leaves isSavingRef as it is.
AfterSaveKeepsMarker(ed, s) ==
    IF s.pc = "saved"
    THEN [ed EXCEPT !.workflowId = <<s.id>>, !.idCanvas = s.canvas, !.isDirty = FALSE]
    ELSE ed

\* The rest of a save once its answer is there.  handleSaveWorkflow keeps the id of
\* the answer, or throws; handleSaveWithTracking goes on to setIsDirty(false) when it
\* did not throw; checkAndSave catches and logs any throw and resets isSavingRef in
\* its finally block.
AfterSave(ed, s) ==
    LET tracked == IF s.pc = "saved"
                   THEN [ed EXCEPT !.workflowId = <<s.id>>, !.idCanvas = s.canvas,
                                   !.isDirty = FALSE]
                   ELSE ed
    IN  IF s.origin = "auto" THEN [tracked EXCEPT !.isSavingRef = FALSE] ELSE tracked

saveReturns(s) ==
    /\ s.pc \in {"saved", "failed"}
    /\ saves' = Without(saves, s)
    /\ editor' = OnDirtyChange(editor, DirtyEffect(AfterSave(editor, s), nodes))
    /\ last' = [EditorEvent("saveReturns", s.id, s.pc)
                    EXCEPT !.req = [origin |-> s.origin, canvas |-> s.canvas]]
    /\ UNCHANGED <<nodes, loadingNodes, checks, extractedNodes, extractions, attempts,
                   hookAttempts, workflowFiles, nextUuid>>
    /\ UNCHANGED <<GenerationVars, ServerVars>>

\* New in the top bar.  handleNewClick opens the confirmation when there are unsaved
\* changes; 'discard' is handleDiscardAndNew, 'save' is handleSaveAndNew: onSave()
\* without await, then onNew(), which is handleNewCanvas.
newCanvas(choice) ==
    /\ HooksMounted
    /\ editor.canvas < MaxCanvases
    /\ choice = "direct" <=> ~hasUnsavedChanges(editor, nodes)
    /\ choice = "save" => BagCardinality(saves) < MaxSaves
    /\ saves' = IF choice = "save"
                THEN saves (+) SetToBag({NewSave("button", editor, nodes)})
                ELSE saves
    /\ CommitAll(<< >>, checks, extractions, Reset(editor))
    /\ last' = EditorEvent("handleNewCanvas", 0, choice)
    /\ UNCHANGED <<workflowFiles, nextUuid>>
    /\ UNCHANGED <<GenerationVars, ServerVars>>

\* handleLoadWithTracking(id) once GET /api/workflows/:id is answered with the record:
\* handleLoadWorkflow puts its nodes, title and id into the state, then
\* setIsDirty(false); the effects run on the commit of all of them.
loadWorkflow(id) ==
    /\ HooksMounted
    /\ editor.canvas < MaxCanvases
    /\ id \in DOMAIN workflowFiles
    /\ CommitAll(workflowFiles[id].nodes, checks, extractions,
                 [editor EXCEPT !.canvasTitle = workflowFiles[id].title,
                                !.workflowId = <<id>>, !.isDirty = FALSE,
                                !.canvas = @ + 1, !.idCanvas = editor.canvas + 1])
    /\ last' = EditorEvent("loadWorkflow", id, "loaded")
    /\ UNCHANGED <<saves, workflowFiles, nextUuid>>
    /\ UNCHANGED <<GenerationVars, ServerVars>>

TrackNext ==
    \/ \E k \in 1..MaxAssets : nextNode < MaxNodes /\ handleSelectAsset(FALSE, k)
    \/ \E n \in DOMAIN nodes : deleteNode(n)
    \/ \E t \in Titles : setCanvasTitle(t)
    \/ \E S \in SUBSET DOMAIN nodes : selectNodes(S)
    \/ saveButton
    \/ autoSaveTick
    \/ \E s \in BagToSet(saves) : saveServed(s)
    \/ \E s \in BagToSet(saves) : saveRejected(s)
    \/ \E s \in BagToSet(saves) : saveReturns(s)
    \/ \E c \in {"direct", "save", "discard"} : newCanvas(c)
    \/ \E id \in 1..MaxWorkflows : loadWorkflow(id)

TrackSpec == Init /\ [][TrackNext]_vars

\* The interval of useAutoSave in steps of time: IntervalSteps of them make the 60 s.
IntervalSteps == 2

\* Time passes without the interval running out.
timePasses ==
    /\ HooksMounted
    /\ editor.sinceRestart + 1 < IntervalSteps
    /\ editor' = [editor EXCEPT !.sinceRestart = @ + 1]
    /\ last' = Quiet
    /\ UNCHANGED <<nodes, loadingNodes, checks, extractedNodes, extractions, attempts,
                   hookAttempts, saves, workflowFiles, nextUuid>>
    /\ UNCHANGED <<GenerationVars, ServerVars>>

\* The interval runs out: setInterval calls checkAndSave and counts anew.
intervalElapses ==
    /\ HooksMounted
    /\ editor.sinceRestart + 1 = IntervalSteps
    /\ IF TickReturns(editor, nodes)
       THEN /\ editor' = RestartInterval(editor)
            /\ last' = EditorEvent("autoSaveTick", 0, "returned")
            /\ UNCHANGED saves
       ELSE /\ BagCardinality(saves) < MaxSaves
            /\ editor' = [RestartInterval(editor) EXCEPT !.isSavingRef = TRUE]
            /\ saves' = saves (+) SetToBag({NewSave("auto", editor, nodes)})
            /\ last' = EditorEvent("autoSaveTick", 0, "started")
    /\ UNCHANGED <<nodes, loadingNodes, checks, extractedNodes, extractions, attempts,
                   hookAttempts, workflowFiles, nextUuid>>
    /\ UNCHANGED <<GenerationVars, ServerVars>>

\* A canvas that is edited while the interval of useAutoSave runs.  Time passes, the
\* interval runs out when its time has come, the backend serves every save and every
\* answer returns; what the user does is under no such condition.
TimedNext ==
    \/ \E t \in {"Image", "Text"} : addNode(t)
    \/ \E n \in DOMAIN nodes, p \in Prompts : setPrompt(n, p)
    \/ \E t \in Titles : setCanvasTitle(t)
    \/ timePasses
    \/ intervalElapses
    \/ \E s \in BagToSet(saves) : saveServed(s)
    \/ \E s \in BagToSet(saves) : saveRejected(s)
    \/ \E s \in BagToSet(saves) : saveReturns(s)

TimedSpec ==
    /\ Init /\ [][TimedNext]_vars
    /\ WF_vars(timePasses)
    /\ WF_vars(intervalElapses)
    /\ WF_vars(\E s \in BagToSet(saves) : saveServed(s) \/ saveRejected(s))
    /\ WF_vars(\E s \in BagToSet(saves) : saveReturns(s))

\* Generation and auto-save side by side: one Image node, generated while the interval
\* of useAutoSave ticks.
IdleNext ==
    \/ addNode("Image")
    \/ \E n \in DOMAIN nodes, p \in Prompts : setPrompt(n, p)
    \/ \E n \in 1..nextNode : handleGenerate(n)
    \/ \E r \in BagToSet(runs) : ServerSucceeds(r)
    \/ \E r \in BagToSet(runs) : ResponseArrives(r)
    \/ autoSaveTick
    \/ \E s \in BagToSet(saves) : saveServed(s)
    \/ \E s \in BagToSet(saves) : saveReturns(s)

IdleSpec == Init /\ [][IdleNext]_vars

\* ------------------------------------------------------------------ concurrent nodes
\* Two nodes on the canvas, edited and generated side by side; the backend answers
\* their requests in any order.
MaxPair == 2

PairNext ==
    \/ \E t \in {"Image", "Video"} : nextNode < MaxPair /\ addNodeFromMenu(t)
    \/ \E n \in DOMAIN nodes, p \in Prompts : setPrompt(n, p)
    \/ \E n \in 1..nextNode : handleGenerate(n)
    \/ \E r \in BagToSet(runs) : ServerSucceeds(r)
    \/ \E r \in BagToSet(runs) : ServerFails(r, "provider failed")
    \/ \E r \in BagToSet(runs) : ResponseArrives(r)
    \/ \E r \in BagToSet(runs) : ExtractionEnds(r, "frame")
    \/ \E c \in BagToSet(checks) : CheckFails(c)

PairSpec == Init /\ [][PairNext]_vars

\* ------------------------------------------------------------------ runs to their end
\* One node of any type, its generate runs and the recovery checks.  The backend
\* answers every request it holds, every answer reaches the client, every extraction
\* and every timer ends, every status check is served and answered; what the user does
\* is under no such condition.
LeaveNext ==
    \/ \E t \in NodeTypes : addNode(t)
    \/ \E n \in DOMAIN nodes, p \in Prompts : setPrompt(n, p)
    \/ \E n \in 1..nextNode : handleGenerate(n)
    \/ \E r \in BagToSet(runs) : ServerSucceeds(r)
    \/ \E r \in BagToSet(runs) : ServerFails(r, "provider failed")
    \/ \E r \in BagToSet(runs) : ResponseArrives(r)
    \/ \E r \in BagToSet(runs) : ExtractionEnds(r, "frame")
    \/ \E r \in BagToSet(runs) : TimerFires(r)
    \/ Tick
    \/ \E c \in BagToSet(checks) : CheckServed(c)
    \/ \E c \in BagToSet(checks) : CheckAnswered(c)

LeaveSpec ==
    /\ Init /\ [][LeaveNext]_vars
    /\ WF_vars(\E r \in BagToSet(runs) : ServerSucceeds(r) \/ ServerFails(r, "provider failed"))
    /\ WF_vars(\E r \in BagToSet(runs) : ResponseArrives(r))
    /\ WF_vars(\E r \in BagToSet(runs) : ExtractionEnds(r, "frame"))
    /\ WF_vars(\E r \in BagToSet(runs) : TimerFires(r))
    /\ WF_vars(\E c \in BagToSet(checks) : CheckServed(c))
    /\ WF_vars(\E c \in BagToSet(checks) : CheckAnswered(c))

\* ------------------------------------------------------------------ requests that name their node
\* POST /generate-image or /generate-video with a nodeId in the body, from the request
\* to the stored result: saveBufferToFile(buffer, dir, prefix, format, nodeId) names
\* the file and its sidecar after the node.  The answer goes to the caller.
postWithNodeId(n, kind) ==
    /\ n \in DOMAIN nodes
    /\ kind \in {"image", "video"}
    /\ LET saved == saveBufferToFile(DirOf(kind), PrefixOf(kind), <<n>>, 0)
       IN  /\ WriteSidecar(sidecars, saved) # sidecars
           /\ sidecars' = WriteSidecar(sidecars, saved)
    /\ last' = Quiet
    /\ UNCHANGED <<dispatcher, nodes, nextNode, runs, nextFile, loadingNodes, checks,
                   extractedNodes, extractions, attempts, hookAttempts, saves,
                   workflowFiles, nextUuid, editor>>

KeyedNext ==
    \/ \E t \in {"Image", "Video"} : addNode(t)
    \/ \E n \in DOMAIN nodes, p \in Prompts : setPrompt(n, p)
    \/ \E n \in 1..nextNode : handleGenerate(n)
    \/ \E n \in DOMAIN nodes, k \in {"image", "video"} : postWithNodeId(n, k)
    \/ \E r \in BagToSet(runs) : ServerSucceeds(r)
    \/ \E r \in BagToSet(runs) : ServerFails(r, "provider failed")
    \/ \E r \in BagToSet(runs) : ResponseArrives(r)
    \/ \E r \in BagToSet(runs) : ExtractionEnds(r, "frame")
    \/ Tick
    \/ \E c \in BagToSet(checks) : CheckServed(c)
    \/ \E c \in BagToSet(checks) : CheckAnswered(c)
    \/ \E c \in BagToSet(checks) : CheckFails(c)

KeyedSpec == Init /\ [][KeyedNext]_vars

\* ------------------------------------------------------------------ answers for nodes that are gone
\* Two Image nodes with their generate runs and recovery checks, on a canvas from which nodes
\* are deleted and which New canvas clears while requests are in flight.
GoneNext ==
    \/ nextNode < MaxPair /\ addNodeFromMenu("Image")
    \/ \E n \in DOMAIN nodes : setPrompt(n, "a cat")
    \/ \E n \in DOMAIN nodes : deleteNode(n)
    \/ \E c \in {"direct", "discard"} : newCanvas(c)
    \/ \E n \in 1..nextNode : handleGenerate(n)
    \/ \E n \in DOMAIN nodes : postWithNodeId(n, "image")
    \/ \E r \in BagToSet(runs) : ServerSucceeds(r)
    \/ \E r \in BagToSet(runs) : ServerFails(r, "provider failed")
    \/ \E r \in BagToSet(runs) : ResponseArrives(r)
    \/ \E c \in BagToSet(checks) : CheckServed(c)
    \/ \E c \in BagToSet(checks) : CheckAnswered(c)

GoneSpec == Init /\ [][GoneNext]_vars

\* ------------------------------------------------------------------ result aspect ratio
\* The width/height of the media stored at url, as the browser reports it once the
\* media has loaded.
RatioOf(url) == <<"ratio", url>>

\* The auto-detect effect of CanvasNode with the onload of the element it creates:
\* it runs for a successful node with a result and no stored ratio.
detectAspectRatio(n) ==
    /\ n \in DOMAIN nodes
    /\ nodes[n].status = SUCCESS
    /\ Truthy(nodes[n].resultUrl)
    /\ ~Truthy(nodes[n].resultAspectRatio)
    /\ Commit(updateNode(nodes, n, [resultAspectRatio |-> RatioOf(nodes[n].resultUrl)]))
    /\ last' = Event("detectAspectRatio", n, nodes[n].status, "", nodes[n].resultUrl)
    /\ UNCHANGED <<dispatcher, nextNode, runs, sidecars, nextFile, saves, workflowFiles,
                   nextUuid>>

AspectNext ==
    \/ \E t \in {"Image", "Video"} : addNode(t)
    \/ \E n \in DOMAIN nodes, p \in Prompts : setPrompt(n, p)
    \/ \E n \in 1..nextNode : handleGenerate(n)
    \/ \E r \in BagToSet(runs) : ServerSucceeds(r)
    \/ \E r \in BagToSet(runs) : ServerFails(r, "provider failed")
    \/ \E r \in BagToSet(runs) : ResponseArrives(r)
    \/ \E r \in BagToSet(runs) : ExtractionEnds(r, "frame")
    \/ \E c \in BagToSet(checks) : CheckFails(c)
    \/ \E n \in DOMAIN nodes : detectAspectRatio(n)

AspectSpec == Init /\ [][AspectNext]_vars

\* ------------------------------------------------------------------ many parents
\* An Image node with up to MaxParents parents.  Each parent has one of three shapes:
\* "direct" has a result of its own, "chain" is a Text node without result whose own
\* parent has one, "none" has no result and no parent.  At most MaxGaps of them are
\* not "direct".
MaxParents == 16
MaxGaps == 1

Gaps(shapes) == Cardinality({i \in 1..Len(shapes) : shapes[i] # "direct"})

RECURSIVE ParentShapes(_)
ParentShapes(k) ==
    IF k = 0 THEN {<< >>}
    ELSE LET shorter == ParentShapes(k - 1)
             longer == {Append(l, x) : l \in {y \in shorter : Len(y) = k - 1},
                                       x \in {"direct", "chain", "none"}}
         IN  shorter \cup {l \in longer : Gaps(l) <= MaxGaps}

\* The ids of the canvas built for a list of shapes: the parents are 1..Len(shapes),
\* the parent of parent i is Len(shapes) + i, the child comes last.
AssetUrl(i) == <<"library", "images", <<"asset", i>>>>
ChildOf(shapes) == 2 * Len(shapes) + 1

CanvasOf(shapes) ==
    LET k == Len(shapes)
        above == {k + i : i \in {j \in 1..k : shapes[j] = "chain"}}
    IN  [n \in (1..k) \cup above \cup {ChildOf(shapes)} |->
            IF n = ChildOf(shapes)
            THEN [NewNode("Image") EXCEPT !.prompt = "a cat",
                                          !.parentIds = [i \in 1..k |-> i]]
            ELSE IF n > k
            THEN [NewNode("Image") EXCEPT !.status = SUCCESS,
                                          !.resultUrl = AssetUrl(n)]
            ELSE CASE shapes[n] = "direct" ->
                          [NewNode("Image") EXCEPT !.status = SUCCESS,
                                                   !.resultUrl = AssetUrl(n)]
                   [] shapes[n] = "chain" ->
                          [NewNode("Text") EXCEPT !.parentIds = <<k + n>>]
                   [] OTHER -> NewNode("Image")]

\* The parent-chain walk of handleGenerate for the child of such a canvas.
collectParentImages(shapes) ==
    /\ HooksMounted
    /\ last' = [Event("collectParentImages", ChildOf(shapes), "absent", "", Undefined)
                    EXCEPT !.inputs = UpstreamImages(CanvasOf(shapes),
                                                     ChildOf(shapes)).images,
                           !.req = [shapes |-> shapes]]
    /\ UNCHANGED <<dispatcher, nodes, nextNode, runs, sidecars, nextFile, loadingNodes,
                   checks, extractedNodes, extractions, attempts, hookAttempts, editor,
                   saves, workflowFiles, nextUuid>>

ParentsNext == \E shapes \in ParentShapes(MaxParents) : collectParentImages(shapes)

ParentsSpec == Init /\ [][ParentsNext]_vars

\* ------------------------------------------------------------------ prompt seeding
\* A handler that copies the prompt of any parent that has one.
handleConnectionMadeAnyParent(ns, rendered, parentId, childId) ==
    IF parentId \notin DOMAIN rendered THEN ns
    ELSE IF rendered[parentId].prompt # ""
    THEN updateNode(ns, childId, [prompt |-> rendered[parentId].prompt])
    ELSE ns

\* handleConnectionMade(parentId, childId) of usePointerHandlers, applied to the node
\* list ns: the parent is looked up in the nodes of the render; the prompt of a Text
\* parent that has one goes to the child through updateNode.
handleConnectionMade(ns, rendered, parentId, childId) ==
    IF parentId \notin DOMAIN rendered THEN ns
    ELSE IF rendered[parentId].type = "Text" /\ rendered[parentId].prompt # ""
    THEN updateNode(ns, childId, [prompt |-> rendered[parentId].prompt])
    ELSE ns

\* handleGlobalPointerUp of usePointerHandlers with a connection dropped on `hovered`:
\* completeConnectionDrag sets the edge as the inline handler of App.tsx does and
\* calls onConnectionMade(parent, child).
completeConnectionDrag(start, handle, hovered) ==
    /\ HooksMounted
    /\ start \in DOMAIN nodes /\ hovered \in DOMAIN nodes
    /\ hovered # start
    /\ handle \in {"left", "right"}
    /\ LET child == IF handle = "right" THEN hovered ELSE start
           parent == IF handle = "right" THEN start ELSE hovered
           linked == [nodes EXCEPT ![child].parentIds = <<parent>>]
           seeded == handleConnectionMade(linked, nodes, parent, child)
       IN  /\ Commit(seeded)
           /\ last' = [Event("handleConnectionMade", child, "absent",
                             IF seeded = linked THEN "kept" ELSE "copied", Undefined)
                           EXCEPT !.req = [parent |-> parent,
                                           before |-> nodes[child].prompt]]
    /\ UNCHANGED <<dispatcher, nextNode, runs, sidecars, nextFile, saves, workflowFiles,
                   nextUuid>>

\* The canvas with nodes from the menu, prompts typed into them and connections
\* dragged between them.
SeedNext ==
    \/ \E t \in MenuTypes : addNodeFromMenu(t)
    \/ \E n \in DOMAIN nodes, p \in Prompts : setPrompt(n, p)
    \/ \E n, m \in DOMAIN nodes, h \in {"left", "right"} :
           completeConnectionDrag(n, h, m)

SeedSpec == Init /\ [][SeedNext]_vars

\* ------------------------------------------------------------------ Kling task polling
\* pollKlingVideoTask, pollKlingImageTask and pollKlingMultiImageTask of
\* services/kling.js.  Times are milliseconds.  The provider is the stream of its
\* answers to the status requests, each with the time its fetch took; past the end of
\* the stream the task is still processing.
VideoMaxWaitMs == 300000
VideoPollInterval == 5000
ImageMaxWaitMs == 120000
ImagePollInterval == 3000
MaxPolls == 3
SlowFetchMs == 100000

PollKinds == {"video", "image", "multi-image"}
maxWaitMs(kind) == IF kind = "video" THEN VideoMaxWaitMs ELSE ImageMaxWaitMs
pollInterval(kind) == IF kind = "video" THEN VideoPollInterval ELSE ImagePollInterval

ResultUrl == <<"kling", "result">>

Answer(code, message, status, statusMsg, url, latency) ==
    [code |-> code, message |-> message, status |-> status, statusMsg |-> statusMsg,
     url |-> url, latency |-> latency]

Processing == Answer(0, "", "processing", "", Undefined, 0)

\* The answers of the status endpoint: { code, message, data: { task_status,
\* task_status_msg, task_result } }; an answer that leaves the task processing comes
\* fast or slow.
Answers ==
    {Answer(0, "", "processing", "", Undefined, l) : l \in {0, SlowFetchMs}}
    \cup {Answer(0, "", "succeed", "", u, 0) : u \in {Undefined, ResultUrl}}
    \cup {Answer(0, "", "failed", sm, Undefined, 0) : sm \in {"", "content rejected"}}
    \cup {Answer(1, m, "", "", Undefined, 0) : m \in {"", "invalid token"}}

\* message || 'Unknown error'
OrUnknown(text) == IF text = "" THEN "Unknown error" ELSE text

FailedPrefix(kind) ==
    CASE kind = "video" -> "Kling generation failed: "
      [] kind = "image" -> "Kling image generation failed: "
      [] OTHER          -> "Kling multi-image generation failed: "

NoUrlMessage(kind) ==
    IF kind = "video" THEN "No video URL in successful response"
    ELSE "No image URL in successful response"

TimedOut(kind) ==
    CASE kind = "video" -> "Kling generation timed out"
      [] kind = "image" -> "Kling image generation timed out"
      [] OTHER          -> "Kling multi-image generation timed out"

Outcome(info, url, msg) == [info |-> info, url |-> url, msg |-> msg]

\* A loop body that reads task_status without testing result.code.
AnswerOutcomeIgnoringCode(kind, a) ==
    IF a.status = "succeed"
    THEN IF ~Truthy(a.url)
         THEN Outcome("error", Undefined, NoUrlMessage(kind))
         ELSE Outcome("url", a.url, "")
    ELSE IF a.status = "failed"
    THEN Outcome("error", Undefined, FailedPrefix(kind) \o OrUnknown(a.statusMsg))
    ELSE Outcome("again", Undefined, "")

\* The body of the while loop for the answer a: throw, return the url, or go on to
\* the wait before the next poll.
AnswerOutcome(kind, a) ==
    IF a.code # 0
    THEN Outcome("error", Undefined, "Kling API error: " \o OrUnknown(a.message))
    ELSE IF a.status = "succeed"
    THEN IF ~Truthy(a.url)
         THEN Outcome("error", Undefined, NoUrlMessage(kind))
         ELSE Outcome("url", a.url, "")
    ELSE IF a.status = "failed"
    THEN Outcome("error", Undefined, FailedPrefix(kind) \o OrUnknown(a.statusMsg))
    ELSE Outcome("again", Undefined, "")

AnswerAt(answers, i) == IF i <= Len(answers) THEN answers[i] ELSE Processing

\* while (Date.now() - startTime < maxWaitMs) { ... }; throw timed out.  i is the poll
\* about to be made, elapsed is Date.now() - startTime at the test of the loop.
RECURSIVE Poll(_, _, _, _)
Poll(kind, answers, i, elapsed) ==
    IF ~(elapsed < maxWaitMs(kind))
    THEN Outcome("timeout", Undefined, TimedOut(kind))
             @@ [read |-> i - 1, elapsed |-> elapsed]
    ELSE LET a == AnswerAt(answers, i)
             o == AnswerOutcome(kind, a)
         IN  IF o.info = "again"
             THEN Poll(kind, answers, i + 1, elapsed + a.latency + pollInterval(kind))
             ELSE o @@ [read |-> i, elapsed |-> elapsed + a.latency]

RECURSIVE AnswerStreams(_)
AnswerStreams(k) ==
    IF k = 0 THEN {<< >>}
    ELSE LET shorter == AnswerStreams(k - 1)
         IN  shorter \cup {Append(l, a) : l \in {x \in shorter : Len(x) = k - 1},
                                          a \in Answers}

\* One call of a poll function, from its first request to its return or throw.
pollKlingTask(kind, answers) ==
    /\ LET o == Poll(kind, answers, 1, 0)
       IN  last' = [Event("pollKlingTask", o.read, "absent", o.info, o.url)
                        EXCEPT !.msg = o.msg,
                               !.req = [kind |-> kind, answers |-> answers,
                                        elapsed |-> o.elapsed]]
    /\ UNCHANGED <<dispatcher, nodes, nextNode, runs, sidecars, nextFile, loadingNodes,
                   checks, extractedNodes, extractions, attempts, hookAttempts, editor,
                   saves, workflowFiles, nextUuid>>

PollNext ==
    \E kind \in PollKinds, answers \in AnswerStreams(MaxPolls) :
        pollKlingTask(kind, answers)

PollSpec == Init /\ [][PollNext]_vars

\* ------------------------------------------------------------------ properties
\* The provider calls of node n that are outstanding: sent and not yet answered to the
\* client.
OutstandingCalls(n) ==
    LET mine == {r \in BagToSet(runs) :
                    r.node = n /\ r.kind \in {"image", "video"} /\ r.pc \in {"sent", "resp"}}
    IN  BagCardinality([r \in mine |-> CopiesIn(r, runs)])

\* C1: handleGenerate never dispatches a second provider call for a node that is
\* Loading: at every moment each node has at most one outstanding provider call.
C1_AtMostOneOutstandingCall == \A n \in NodeIds : OutstandingCalls(n) <= 1

\* C1, the part that holds: a node with an outstanding call of its own dispatch was set
\* to Loading at the dispatch (seen in the state right after handleGenerate).
C1_LoadingAtDispatch ==
    (/\ last.op = "handleGenerate"
     /\ last.info \in {"image", "video"}
     /\ last.node \in DOMAIN nodes)
        => nodes[last.node].status = LOADING

\* A second dispatch for a node that was Loading, with its first call still outstanding.
C1_SecondDispatchWhileLoading ==
    /\ last.op = "handleGenerate"
    /\ last.pre = LOADING
    /\ OutstandingCalls(last.node) = 2

\* C2: a generate run whose provider call fails (network error, non-2xx answer, answer
\* without resultUrl) leaves its node in Error, with a message.
C2_FailedCallEndsInError ==
    (/\ last.op \in {"response", "networkError"}
     /\ last.info = "failed"
     /\ last.node \in DOMAIN nodes)
        => /\ nodes[last.node].status = ERROR
           /\ nodes[last.node].errorMessage # NoMessage

\* A 2xx answer without resultUrl has just been handled and the node is in Error.
C2_MalformedAnswerHandled ==
    /\ last.op = "response"
    /\ last.info = "failed"
    /\ last.node \in DOMAIN nodes
    /\ nodes[last.node].status = ERROR
    /\ nodes[last.node].errorMessage = NoDataReturned

\* C3: when a job of a node has completed on the backend, its response has not reached
\* the client and the node is still Loading, a recovery check that the backend answers
\* finds the persisted result by the node's id and moves the node to Success with the
\* URL of that result.
C3_RecoveryFindsPersistedResult ==
    (/\ last.op = "checkStatus"
     /\ last.info \in {"success", "pending"}
     /\ Truthy(last.url)
     /\ last.pre = LOADING
     /\ last.node \in DOMAIN nodes)
        => /\ nodes[last.node].status = SUCCESS
           /\ nodes[last.node].resultUrl = last.url

\* A check answered for a Loading node whose job was persisted and undelivered.
C3_CheckWithPersistedJob ==
    /\ last.op = "checkStatus"
    /\ last.info = "pending"
    /\ Truthy(last.url)
    /\ last.pre = LOADING
    /\ last.node \in DOMAIN nodes

\* C4: a recovery check and the dispatcher's completion of the same node's job, in
\* either order, leave the node with the dispatcher's outcome: a delivered result makes
\* the node Success with the delivered URL whatever checks came before, and a check
\* answered after the completion keeps the node Success with the same resultUrl.
C4_DispatcherOutcome ==
    (/\ last.op = "response"
     /\ last.info = "delivered"
     /\ last.node \in DOMAIN nodes
     /\ nodes[last.node].type = "Image")
        => /\ nodes[last.node].status = SUCCESS
           /\ nodes[last.node].resultUrl = last.url

C4_CheckAfterCompletion ==
    (/\ last'.op = "checkStatus"
     /\ last'.node \in DOMAIN nodes
     /\ nodes[last'.node].status = SUCCESS)
        => /\ last'.node \in DOMAIN nodes'
           /\ nodes'[last'.node].status = SUCCESS
           /\ nodes'[last'.node].resultUrl = nodes[last'.node].resultUrl

C5_ResultUrlIffSuccess ==
    \A n \in DOMAIN nodes : Truthy(nodes[n].resultUrl) <=> nodes[n].status = SUCCESS

\* A node that was Success has been dispatched again and is Loading with its old result.
C5_RegeneratingWithOldResult ==
    /\ last.op = "handleGenerate"
    /\ last.pre = SUCCESS
    /\ nodes[last.node].status = LOADING
    /\ Truthy(nodes[last.node].resultUrl)

\* C6: a node has an errorMessage only while its status is Error: a new attempt clears
\* it, and a Success node has none.
C6_ErrorMessageOnlyInError ==
    \A n \in DOMAIN nodes : nodes[n].errorMessage # NoMessage => nodes[n].status = ERROR

\* A node that was Error has been dispatched again and is Loading with its old message.
C6_RetryKeepsMessage ==
    /\ last.op = "handleGenerate"
    /\ last.pre = ERROR
    /\ nodes[last.node].status = LOADING
    /\ nodes[last.node].errorMessage # NoMessage

\* C7: a recovery check answered for a node that is already Success changes nothing:
\* the node list, and with it the node's resultUrl and every other field, is the same
\* after it, and nothing that a write of the node list sets off has happened.
C7_CheckOnSuccessStep ==
    (/\ last'.op = "checkStatus"
     /\ last'.node \in DOMAIN nodes
     /\ nodes[last'.node].status = SUCCESS)
        => /\ nodes' = nodes
           /\ loadingNodes' = loadingNodes
           /\ extractedNodes' = extractedNodes
           /\ extractions' = extractions
           /\ attempts' = attempts

C8_FailedCheckStep ==
    (last'.op = "checkStatus" /\ last'.info \in {"pending", "error500", "reject"})
        => /\ nodes' = nodes
           /\ loadingNodes' = loadingNodes

C8_PollingArmed == HooksMounted => loadingNodes = LoadingNodesOf(nodes)

C8_FailedCheckLeavesNodes == []C8_PollingArmed /\ [][C8_FailedCheckStep]_vars

\* A check of a Loading node has failed with a network error and the node is still
\* Loading and still polled.
C8_FailedCheckStillPolled ==
    /\ last.op = "checkStatus"
    /\ last.info = "reject"
    /\ last.pre = LOADING
    /\ last.node \in loadingNodes
    /\ nodes[last.node].status = LOADING

\* C9: while a node stays in the graph, no second last-frame extraction is attempted
\* for it.
C9_NoSecondExtractionAttempt == \A n \in DOMAIN nodes : attempts[n] <= 1

\* The extraction hook has extracted for a node and the dispatcher extracts for it again.
C9_HookThenDispatcher ==
    \E n \in DOMAIN nodes : hookAttempts[n] = 1 /\ attempts[n] = 2

\* C10: a failed last-frame extraction never changes the node's status: after a failed
\* extraction of the dispatcher the node is Success with the delivered resultUrl and
\* without lastFrame, and after a failed one of the hook the status is as before.
C10_ExtractionFailureKeepsStatus ==
    /\ (/\ last.op = "extractionEnds"
        /\ last.info \in {"empty", "reject"}
        /\ last.node \in DOMAIN nodes)
           => /\ nodes[last.node].status = SUCCESS
              /\ nodes[last.node].resultUrl = last.url
              /\ ~Truthy(nodes[last.node].lastFrame)
    /\ (/\ last.op = "hookExtractionEnds"
        /\ last.info \in {"empty", "reject"}
        /\ last.node \in DOMAIN nodes)
           => nodes[last.node].status = last.pre

\* The dispatcher's extraction has been rejected and the node is in Error.
C10_RejectionEndsInError ==
    /\ last.op = "extractionEnds"
    /\ last.info = "reject"
    /\ last.node \in DOMAIN nodes
    /\ nodes[last.node].status = ERROR

\* ------------------------------------------------------------------ graph properties
\* The nodes reached from the set S by at most k parent links.
RECURSIVE AncestorsWithin(_, _, _)
AncestorsWithin(ns, S, k) ==
    IF k = 0 \/ S = {}
    THEN {}
    ELSE LET P == UNION {Parents(ns, m) : m \in S \cap DOMAIN ns}
         IN  P \cup AncestorsWithin(ns, P, k - 1)

Ancestors(ns, n) == AncestorsWithin(ns, {n}, Cardinality(DOMAIN ns))

\* C11: after any sequence of canvas operations the parent graph is acyclic: no node is
\* its own ancestor through its parent links.
C11_ParentGraphAcyclic == \A n \in DOMAIN nodes : n \notin Ancestors(nodes, n)

\* Two nodes that are each other's parent.
C11_TwoNodeCycle ==
    \E a, b \in DOMAIN nodes :
        a # b /\ a \in Parents(nodes, b) /\ b \in Parents(nodes, a)

\* C12: on every graph the canvas operations can build, the upstream image resolution
\* of handleGenerate comes to an end.
C12_ResolutionTerminates == last.op = "handleGenerate" => last.info # "loops"

\* handleGenerate has been called on an image node whose parent chain runs into a cycle
\* of nodes without a result.
C12_WalkInCycle ==
    /\ last.op = "handleGenerate"
    /\ last.info = "loops"
    /\ last.node \in DOMAIN nodes
    /\ nodes[last.node].type = "Image"

\* An image request has just been dispatched by the hook for node last.node.
ImageDispatched ==
    /\ dispatcher = "useGeneration"
    /\ last.op = "handleGenerate"
    /\ last.info = "image"

\* Node c has the single parent b, b has no result and the first parent a, a has one.
SkippingChain(a, b, c) ==
    /\ nodes[c].parentIds = <<b>>
    /\ ~Truthy(nodes[b].resultUrl)
    /\ Len(nodes[b].parentIds) > 0
    /\ nodes[b].parentIds[1] = a
    /\ Truthy(nodes[a].resultUrl)

\* C13: for an Image node C with the chain A (resultUrl X) -> B (no result) -> C the
\* request carries exactly <<X>>; with a single parent that has a result it carries that
\* parent's result: the walk skips result-less nodes and stops at the nearest result.
C13_NearestResultIsInput ==
    ImageDispatched =>
        \A a, b \in DOMAIN nodes :
            /\ SkippingChain(a, b, last.node) => last.inputs = <<nodes[a].resultUrl>>
            /\ (nodes[last.node].parentIds = <<a>> /\ Truthy(nodes[a].resultUrl))
                   => last.inputs = <<nodes[a].resultUrl>>

\* The chain A -> B -> C of three different nodes has been resolved to A's result,
\* which is not C's own.
C13_TextNodeSkipped ==
    /\ ImageDispatched
    /\ \E a, b \in DOMAIN nodes :
           /\ Cardinality({a, b, last.node}) = 3
           /\ SkippingChain(a, b, last.node)
           /\ nodes[b].type = "Text"
           /\ nodes[a].resultUrl # nodes[last.node].resultUrl
           /\ last.inputs = <<nodes[a].resultUrl>>

\* A video request has just been dispatched for node last.node.
VideoDispatched == last.op = "handleGenerate" /\ last.info = "video"

\* C14: the image input of a video request is the lastFrame of the first parent when
\* that parent is a Video node with a lastFrame, else the first parent's resultUrl, and
\* it is absent when there is no parent or the parent has no result.
C14_VideoInputPrefersLastFrame ==
    VideoDispatched =>
        LET ps == nodes[last.node].parentIds
        IN  IF Len(ps) = 0 \/ ps[1] \notin DOMAIN nodes
            THEN last.inputs = << >>
            ELSE LET A == nodes[ps[1]]
                 IN  /\ (A.type = "Video" /\ Truthy(A.lastFrame))
                            => last.inputs = <<A.lastFrame>>
                     /\ (~(A.type = "Video" /\ Truthy(A.lastFrame)) /\ Truthy(A.resultUrl))
                            => last.inputs = <<A.resultUrl>>
                     /\ (~(A.type = "Video" /\ Truthy(A.lastFrame)) /\ ~Truthy(A.resultUrl))
                            => last.inputs = << >>

\* A video node has been dispatched whose parent video has both a result and a last
\* frame, and the request carries the frame.
C14_ContinuesFromLastFrame ==
    /\ VideoDispatched
    /\ Len(nodes[last.node].parentIds) > 0
    /\ nodes[last.node].parentIds[1] \in DOMAIN nodes
    /\ LET A == nodes[nodes[last.node].parentIds[1]]
       IN  /\ A.type = "Video"
           /\ Truthy(A.lastFrame)
           /\ Truthy(A.resultUrl)
           /\ A.lastFrame # A.resultUrl
           /\ last.inputs = <<A.lastFrame>>

\* C15: deleteNode(X) removes X and no other node, and afterwards no remaining node has
\* X among its parents.
C15_DeleteClearsReferences ==
    [][\A x \in DOMAIN nodes :
           (last'.op = "deleteNode" /\ last'.node = x) =>
               /\ DOMAIN nodes' = DOMAIN nodes \ {x}
               /\ \A m \in DOMAIN nodes' : x \notin Parents(nodes', m)]_vars

\* A node has just been deleted and a remaining node still names it as its parent.
C15_DanglingParent ==
    /\ last.op = "deleteNode"
    /\ last.node \notin DOMAIN nodes
    /\ \E m \in DOMAIN nodes : last.node \in Parents(nodes, m)

\* The call of the provider has just failed for node last.node, with the message
\* last.msg, and the node is still on the canvas.
CallFailed ==
    /\ last.op \in {"response", "networkError"}
    /\ last.info = "failed"
    /\ last.node \in DOMAIN nodes

PermissionDeniedMessage == "Permission denied. Check API Key configuration."

\* C16: when the provider call of a Loading node fails with a message that contains
\* "403", the node is in Error with exactly the fixed permission message.
C16_403GivesFixedMessage ==
    (CallFailed /\ last.pre = LOADING /\ last.msg \in Mentions403)
        => /\ nodes[last.node].status = ERROR
           /\ nodes[last.node].errorMessage = PermissionDeniedMessage

\* The call of a Loading node failed with "403 Forbidden" and the node shows that raw
\* text.
C16_Raw403Shown ==
    /\ CallFailed
    /\ last.pre = LOADING
    /\ last.msg \in Mentions403
    /\ nodes[last.node].status = ERROR
    /\ nodes[last.node].errorMessage = last.msg

\* C17: a failure whose message matches the permission-denied, entity-not-found or 403
\* pattern gives the one fixed message, every other failure the raw message.
C17_OneFixedMessage ==
    CallFailed =>
        nodes[last.node].errorMessage =
            IF last.msg \in Mentions403 \cup MentionsPermissionDenied
                                        \cup MentionsEntityNotFound
            THEN PermissionDeniedMessage
            ELSE last.msg

\* The hook has handled an entity-not-found failure and the node shows the raw text.
C17_EntityNotFoundShownRaw ==
    /\ CallFailed
    /\ dispatcher = "useGeneration"
    /\ last.msg \in MentionsEntityNotFound
    /\ nodes[last.node].errorMessage = last.msg

\* C18: handleGenerate on a node whose prompt is empty, or on an id that matches no
\* node, changes no node and sends no request.
C18_EmptyPromptIsNoOp ==
    [][(/\ last'.op = "handleGenerate"
        /\ (last'.node \notin DOMAIN nodes \/ nodes[last'.node].prompt = ""))
           => /\ nodes' = nodes
              /\ runs' = runs
              /\ checks' = checks]_vars

\* handleGenerate has been called on a node of the canvas whose prompt is empty.
C18_CalledWithEmptyPrompt ==
    /\ last.op = "handleGenerate"
    /\ last.info = "returned"
    /\ last.node \in DOMAIN nodes
    /\ nodes[last.node].prompt = ""

\* ------------------------------------------------------------------ provider properties
\* A generation request has just been served by a provider (no key was missing).
RequestServed ==
    /\ last.op \in {"generate-image", "generate-video"}
    /\ last.info # "none"

\* C19 as stated: the prefix of the model id alone names the provider: kling- the Kling
\* adapter, hailuo- Hailuo, gpt-image- OpenAI, every other or missing id Gemini/Veo.
C19_PrefixAloneDecides ==
    RequestServed =>
        LET m == last.req.model
        IN  IF StartsWithKling(m) THEN last.info = "kling"
            ELSE IF StartsWithHailuo(m) THEN last.info = "hailuo"
            ELSE IF StartsWithGptImage(m) THEN last.info = "openai"
            ELSE last.info \in {"gemini", "veo"}

\* C19, amended: the route and the prefix of the model id name the provider, but for
\* kling-v2-6 video requests with a motion reference, which fal.ai serves.  Image
\* requests: kling- Kling, gpt-image- OpenAI, else Gemini.  Video requests: kling-
\* Kling, hailuo- Hailuo, else Veo.
C19_RouteAndPrefixDecide ==
    RequestServed =>
        LET m == last.req.model
        IN  IF last.req.route = "image"
            THEN IF StartsWithKling(m) THEN last.info = "kling"
                 ELSE IF StartsWithGptImage(m) THEN last.info = "openai"
                 ELSE last.info = "gemini"
            ELSE IF m = KlingV26 /\ last.req.motion = "resolved" THEN last.info = "fal"
                 ELSE IF StartsWithKling(m) THEN last.info = "kling"
                 ELSE IF StartsWithHailuo(m) THEN last.info = "hailuo"
                 ELSE last.info = "veo"

\* A kling-v2-6 video request with a motion reference has been served by fal.ai.
C19_MotionControlOnFal ==
    /\ RequestServed
    /\ last.req.route = "video"
    /\ last.req.model = KlingV26
    /\ last.req.motion = "resolved"
    /\ last.info = "fal"
    /\ Truthy(last.url)

\* An image request has just been served by the Kling adapter.
KlingImageServed == last.op = "generate-image" /\ last.info = "kling"

\* C20 as stated: a Kling image request with more than one supplied image issues exactly
\* one multi-image task that carries images among the first 4 supplied; with zero or
\* one supplied image it issues one single-image task.
C20_SuppliedCountDecides ==
    KlingImageServed =>
        /\ Len(last.inputs) = 1
        /\ IF Len(last.req.images) > 1
           THEN /\ last.inputs[1].endpoint = "multi-image2image"
                /\ Len(last.inputs[1].images) <= KlingSubjectLimit
                /\ \A i \in 1..Len(last.inputs[1].images) :
                       last.inputs[1].images[i] <= KlingSubjectLimit
           ELSE last.inputs[1].endpoint = "generations"

\* C20, amended: the images that count are those the route resolves.  With more than
\* one resolved image the request issues exactly one multi-image task carrying the
\* first 4 of them at most, in order; with zero or one resolved image exactly one
\* single-image task carrying that image, if any.
C20_ResolvedCountDecides ==
    KlingImageServed =>
        LET R == resolvedImages(last.req.images)
        IN  /\ Len(last.inputs) = 1
            /\ \A i \in 1..Len(last.inputs[1].images) : last.inputs[1].images[i] = R[i]
            /\ IF Len(R) > 1
               THEN /\ last.inputs[1].endpoint = "multi-image2image"
                    /\ Len(last.inputs[1].images) =
                           IF Len(R) < KlingSubjectLimit THEN Len(R) ELSE KlingSubjectLimit
               ELSE /\ last.inputs[1].endpoint = "generations"
                    /\ Len(last.inputs[1].images) = Len(R)

\* Five images were supplied, the first did not resolve, and one multi-image task
\* carries the other four.
C20_FourOfFiveCarried ==
    /\ KlingImageServed
    /\ Len(last.req.images) = 5
    /\ ~last.req.images[1]
    /\ Len(last.inputs) = 1
    /\ last.inputs[1].endpoint = "multi-image2image"
    /\ last.inputs[1].images = <<2, 3, 4, 5>>

\* ------------------------------------------------------------------ workflow properties
\* The step is a POST /api/workflows for the id i of a persisted record.
SavedAgain(i) ==
    /\ last'.op = "postWorkflow"
    /\ last'.req.id = <<i>>
    /\ i \in DOMAIN workflowFiles

\* C21: when a record has a coverUrl and its id is saved again without a coverUrl, the
\* persisted record keeps the coverUrl it had (at every such save, so after any number
\* of them).
C21_CoverKeptWhenNoneSent ==
    [][\A i \in 1..MaxWorkflows :
           (/\ SavedAgain(i)
            /\ Truthy(workflowFiles[i].coverUrl)
            /\ last'.req.coverUrl = Undefined)
               => /\ i \in DOMAIN workflowFiles'
                  /\ workflowFiles'[i].coverUrl = workflowFiles[i].coverUrl]_vars

\* A record was saved again without a coverUrl and holds one.
C21_SavedAgainWithoutCover ==
    /\ last.op = "postWorkflow"
    /\ last.req.id # Undefined
    /\ last.req.coverUrl = Undefined
    /\ last.node \in DOMAIN workflowFiles
    /\ Truthy(workflowFiles[last.node].coverUrl)

\* C22: when a save of an existing workflow supplies a coverUrl, the persisted record
\* holds the supplied coverUrl after the save.
C22_SuppliedCoverIsStored ==
    [][\A i \in 1..MaxWorkflows :
           (SavedAgain(i) /\ Truthy(last'.req.coverUrl))
               => workflowFiles'[i].coverUrl = last'.req.coverUrl]_vars

\* An existing workflow was saved with a coverUrl and the record holds another one.
C22_SuppliedCoverDropped ==
    /\ last.op = "postWorkflow"
    /\ last.req.id # Undefined
    /\ Truthy(last.req.coverUrl)
    /\ last.node \in DOMAIN workflowFiles
    /\ Truthy(workflowFiles[last.node].coverUrl)
    /\ workflowFiles[last.node].coverUrl # last.req.coverUrl

\* ------------------------------------------------------------------ tracking properties
\* A save or a load has just completed with success, and its effects have run.
SavedOrLoaded ==
    \/ last.op = "saveReturns" /\ last.info = "saved"
    \/ last.op = "loadWorkflow"

\* C23: once a successful save or load has completed and the effects have settled, the
\* dirty flag is false.
C23_CleanAfterSaveOrLoad == SavedOrLoaded => ~editor.isDirty

\* C23, the part that holds: the dirty flag goes up only in a step that changes the
\* number of nodes or the title.
C23_RaisedOnlyByChange ==
    [][(~editor.isDirty /\ editor'.isDirty)
           => \/ Length(nodes') # Length(nodes)
              \/ editor'.canvasTitle # editor.canvasTitle]_vars

\* A workflow has just been loaded and the canvas counts as dirty.
C23_DirtyAfterLoad ==
    /\ last.op = "loadWorkflow"
    /\ editor.isDirty
    /\ hasUnsavedChanges(editor, nodes)

\* C24: a tick of the auto-save starts a save only when the workflow is dirty, has a
\* node, and no save, of an earlier tick or of the Save button, is still in flight.
C24_TickStartsNoSecondSave ==
    [][(last'.op = "autoSaveTick" /\ last'.info = "started")
           => /\ editor.isDirty
              /\ Length(nodes) > 0
              /\ saves = EmptyBag]_vars

\* A tick has started a save while a save of the Save button was in flight.
C24_TickDuringButtonSave ==
    /\ last.op = "autoSaveTick"
    /\ last.info = "started"
    /\ \E s, t \in BagToSet(saves) : s.origin = "button" /\ t.origin = "auto"

\* C24, the part that holds: a tick starts no save while the save of an earlier tick
\* is in flight.
C24_OneAutoSaveAtATime ==
    \A s \in BagToSet(saves) : s.origin = "auto" => CopiesIn(s, saves) = 1 /\
        \A t \in BagToSet(saves) : t.origin = "auto" => t = s

\* The step is the return of an auto-save that failed.
AutoSaveFailed ==
    /\ last'.op = "saveReturns"
    /\ last'.info = "failed"
    /\ last'.req.origin = "auto"

C26_NewCanvasNeverOverwrites ==
    /\ last.op = "handleNewCanvas"
           => /\ nodes = << >>
              /\ editor.selectedNodeIds = {}
              /\ editor.workflowId = Undefined
    /\ editor.workflowId # Undefined => editor.idCanvas = editor.canvas

\* After New canvas the editor holds the id of the workflow of the canvas before, and a
\* save of the new canvas is on its way to that workflow's record.
C26_SaveAddressedToOldWorkflow ==
    /\ editor.canvas > editor.idCanvas
    /\ \E s \in BagToSet(saves) :
           /\ s.pc = "sent"
           /\ s.canvas = editor.canvas
           /\ s.body.id = editor.workflowId
           /\ s.body.id # Undefined
           /\ s.body.id[1] \in DOMAIN workflowFiles

\* C27: a tick of auto-save starts a save only when no node is in Loading status.
C27_NoSaveDuringGeneration ==
    [][(last'.op = "autoSaveTick" /\ last'.info = "started")
           => \A n \in DOMAIN nodes : nodes[n].status # LOADING]_vars

\* A tick has started a save of a canvas with a node in Loading status, and the body on
\* its way to the backend holds that node as Loading.
C27_SavingLoadingNode ==
    /\ last.op = "autoSaveTick"
    /\ last.info = "started"
    /\ \E s \in BagToSet(saves) :
           /\ s.origin = "auto"
           /\ \E n \in DOMAIN s.body.nodes : s.body.nodes[n].status = LOADING

\* The keys of the provider a request selects, read off the request: the model prefix,
\* and inside the Kling video branch the motion reference.
NeededKeys(req) ==
    IF StartsWithKling(req.model)
    THEN IF req.route = "video" /\ req.model = KlingV26 /\ req.motion = "resolved"
         THEN {"FAL_API_KEY"}
         ELSE {"KLING_ACCESS_KEY", "KLING_SECRET_KEY"}
    ELSE IF req.route = "video" /\ StartsWithHailuo(req.model) THEN {"HAILUO_API_KEY"}
    ELSE IF req.route = "image" /\ StartsWithGptImage(req.model) THEN {"OPENAI_API_KEY"}
    ELSE {"GEMINI_API_KEY"}

FinalAnswer == AnswerAt(last.req.answers, last.node)
EndsLoop(a) == a.code # 0 \/ a.status \in {"succeed", "failed"}
Budget == IF last.req.kind = "video" THEN VideoMaxWaitMs ELSE ImageMaxWaitMs

C29_ApiErrorEndsLoop ==
    /\ last.op = "pollKlingTask"
    /\ last.info = "error"
    /\ FinalAnswer.code # 0
    /\ last.msg = "Kling API error: invalid token"

\* ------------------------------------------------------------------ seeding properties
PromptsChanged ==
    {n \in DOMAIN nodes \cap DOMAIN nodes' : nodes'[n].prompt # nodes[n].prompt}

C30_ChildKeepsSeedAfterEdit ==
    \E c, p \in DOMAIN nodes :
        /\ HooksMounted
        /\ nodes[c].parentIds = <<p>>
        /\ nodes[p].type = "Text"
        /\ nodes[p].prompt = ""
        /\ nodes[c].prompt = "a cat"

\* ------------------------------------------------------------------ concurrency properties
\* The fields a generation writes.
ResultFields == {"status", "resultUrl", "lastFrame", "errorMessage"}

\* A step in which a run of handleGenerate ends: its last update of the node.
Completion == last'.op \in {"response", "networkError", "extractionEnds"}

\* C31: a completion changes the result fields of its own node and nothing else: every
\* other node, and every other field of its own node (the prompt typed meanwhile among
\* them), is as it was; and what it writes follows from its own exchange alone, so the
\* order in which two nodes complete does not show in either.
C31_CompletionTouchesOwnNode ==
    [][Completion
           => /\ DOMAIN nodes' = DOMAIN nodes
              /\ \A m \in DOMAIN nodes :
                     IF m # last'.node
                     THEN nodes'[m] = nodes[m]
                     ELSE \A f \in DOMAIN nodes[m] \ ResultFields :
                              nodes'[m][f] = nodes[m][f]
              /\ (last'.node \in DOMAIN nodes /\ last'.op = "response")
                     => IF last'.info = "failed"
                        THEN nodes'[last'.node].status = ERROR
                        ELSE nodes[last'.node].type = "Image"
                                 => /\ nodes'[last'.node].status = SUCCESS
                                    /\ nodes'[last'.node].resultUrl = last'.url]_vars

\* The answer for node 2 has arrived while node 1 is still generating: node 2 is
\* successful with its own result, node 1 is loading with its request in flight and
\* holds the prompt typed into it.
C31_SecondCompletesFirst ==
    /\ last.op = "response"
    /\ last.node = 2
    /\ 1 \in DOMAIN nodes /\ 2 \in DOMAIN nodes
    /\ nodes[2].status = SUCCESS
    /\ nodes[1].status = LOADING
    /\ nodes[1].prompt = "a cat"
    /\ \E r \in BagToSet(runs) : r.node = 1

\* ------------------------------------------------------------------ many-parent properties
\* The image behind the i-th parentIds entry of the request in `last`, and the entries
\* that have one, in the order of parentIds.
ImageBehind(i) ==
    IF last.req.shapes[i] = "direct" THEN AssetUrl(i)
    ELSE AssetUrl(Len(last.req.shapes) + i)
EntriesWithImage ==
    SelectSeq([i \in 1..Len(last.req.shapes) |-> i],
              LAMBDA i : last.req.shapes[i] # "none")

\* C32: the walk returns at most 14 images: one for each of the first 14 parentIds
\* entries whose chain holds an image, in the order of those entries.
C32_AtMostLimitInParentOrder ==
    last.op = "collectParentImages"
        => /\ Len(last.inputs) <= GeminiImageLimit
           /\ Len(last.inputs) <= Len(last.req.shapes)
           /\ Len(last.inputs) =
                  IF Len(EntriesWithImage) < GeminiImageLimit
                  THEN Len(EntriesWithImage) ELSE GeminiImageLimit
           /\ \A j \in 1..Len(last.inputs) :
                  last.inputs[j] = ImageBehind(EntriesWithImage[j])

\* A node with sixteen parents that all hold an image, the second one behind a Text
\* node: fourteen images are sent.
C32_SixteenParents ==
    /\ last.op = "collectParentImages"
    /\ Len(last.req.shapes) = MaxParents
    /\ last.req.shapes[2] = "chain"
    /\ Len(last.inputs) = GeminiImageLimit

\* ------------------------------------------------------------------ aspect-ratio properties
\* C33: a stored resultAspectRatio is the ratio of the node's current result: it is
\* not overwritten while the resultUrl stays, and it does not outlive a change of the
\* resultUrl.
C33_RatioOfCurrentResult ==
    \A n \in DOMAIN nodes :
        Truthy(nodes[n].resultAspectRatio)
            => nodes[n].resultAspectRatio = RatioOf(nodes[n].resultUrl)

\* A regenerated node shows its second result with the ratio detected for the first.
C33_RatioOfEarlierResult ==
    /\ last.op = "response"
    /\ last.node \in DOMAIN nodes
    /\ nodes[last.node].status = SUCCESS
    /\ nodes[last.node].resultUrl = last.url
    /\ Truthy(nodes[last.node].resultAspectRatio)
    /\ nodes[last.node].resultAspectRatio # RatioOf(last.url)

\* ------------------------------------------------------------------ node creation properties
\* The step from `nodes` to `nodes'` adds one node of the given type with the given
\* parents, idle, without prompt and without result, and leaves the others as they were.
Created(type, parents) ==
    LET new == nextNode + 1
    IN  /\ new \notin DOMAIN nodes
        /\ DOMAIN nodes' = DOMAIN nodes \cup {new}
        /\ nodes'[new].type = type
        /\ nodes'[new].status = IDLE
        /\ nodes'[new].prompt = ""
        /\ nodes'[new].resultUrl = Undefined
        /\ nodes'[new].parentIds = parents
        /\ \A m \in DOMAIN nodes : nodes'[m] = nodes[m]

\* C34: a node added from the canvas menu, or appended from the right connector of a
\* node, starts idle with an empty prompt and no resultUrl, linked to the source node
\* when there is one; the nodes that were there are unchanged.
C34_AddedNodeStartsIdle ==
    [][/\ \A t \in MenuTypes : addNodeFromMenu(t) => Created(t, << >>)
       /\ \A n \in DOMAIN nodes, t \in MenuTypes :
              handleAddNext(n, t) => Created(t, <<n>>)]_vars

\* A node appended to a node that holds a result.
C34_AppendedToResult ==
    /\ DOMAIN nodes = {1, 2}
    /\ nodes[1].status = SUCCESS
    /\ nodes[1].parentIds = << >>
    /\ nodes[2].parentIds = <<1>>
    /\ nodes[2].status = IDLE
    /\ nodes[2].prompt = ""
    /\ nodes[2].resultUrl = Undefined

Loading(n) == n \in DOMAIN nodes /\ nodes[n].status = LOADING
Left(n) == n \notin DOMAIN nodes \/ nodes[n].status \in {SUCCESS, ERROR}

\* C36: a node of any type that a generate run has moved to Loading is in Success or
\* Error some time later.
C36_EveryRunLeavesLoading == \A n \in NodeIds : Loading(n) ~> Left(n)

\* The same for the node types that have a branch in both handlers.
ImageOrVideoLeavesLoading ==
    \A n \in NodeIds : (Loading(n) /\ nodes[n].type # "Text") ~> Left(n)

\* A Text node in Loading for which no request, timer or extraction is under way.
C36_TextLoadingWithoutRun ==
    /\ last.op = "handleGenerate"
    /\ Loading(last.node)
    /\ nodes[last.node].type = "Text"
    /\ runs = EmptyBag

\* ------------------------------------------------------------------ saves and later changes
\* The saves that return in the step, and whether the canvas has moved on from the
\* body of a save: another number of nodes or another title.
Returning == {s \in BagToSet(saves) : CopiesIn(s, saves') < CopiesIn(s, saves)}
ChangedSince(s) ==
    \/ Length(s.body.nodes) # Length(nodes)
    \/ s.body.title # editor.canvasTitle

\* C37: when a save of the open canvas returns with success and the number of nodes
\* or the title is no longer that of its body, the workflow is dirty afterwards.
C37_ChangeDuringSaveStaysDirty ==
    [][(last'.op = "saveReturns" /\ last'.info = "saved")
           => \A s \in Returning :
                  (s.canvas = editor.canvas /\ ChangedSince(s)) => editor'.isDirty]_vars

\* A save has returned and left the canvas clean, with a node on it and a title that
\* the stored workflow does not have.
C37_CleanWithUnsavedTitle ==
    /\ last.op = "saveReturns"
    /\ last.info = "saved"
    /\ ~editor.isDirty
    /\ Length(nodes) > 0
    /\ editor.workflowId # Undefined
    /\ editor.workflowId[1] \in DOMAIN workflowFiles
    /\ workflowFiles[editor.workflowId[1]].title # editor.canvasTitle
    /\ last.req.canvas = editor.canvas
    /\ saves = EmptyBag

\* ------------------------------------------------------------------ frame of the current result
\* C38: the lastFrame of a Video node is the frame of the video at its resultUrl.
C38_FrameOfCurrentResult ==
    \A n \in DOMAIN nodes :
        (nodes[n].type = "Video" /\ Truthy(nodes[n].lastFrame))
            => nodes[n].lastFrame = FrameOf(nodes[n].resultUrl)

\* An extraction started by the hook for an earlier video has ended after the node got
\* another result: the node holds the new resultUrl with the frame of the old video.
C38_FrameOfEarlierVideo ==
    /\ last.op = "hookExtractionEnds"
    /\ last.info = "frame"
    /\ last.node \in DOMAIN nodes
    /\ nodes[last.node].status = SUCCESS
    /\ nodes[last.node].lastFrame = FrameOf(last.url)
    /\ Truthy(nodes[last.node].resultUrl)
    /\ nodes[last.node].resultUrl # last.url

\* ------------------------------------------------------------------ auto-save in time
DirtyIdle == editor.isDirty /\ Length(nodes) > 0 /\ saves = EmptyBag
AutoSaveStarted == \E s \in BagToSet(saves) : s.origin = "auto"

\* C39: a workflow that is dirty, has a node and no save in flight gets an auto-save
\* started some time later, whatever changes of the node list lie between.
C39_AutoSaveEventuallyStarts == DirtyIdle ~> AutoSaveStarted

\* What holds: the auto-save starts unless the node list changes again and again.
AutoSaveStartsWhenEditingStops ==
    ([]<><<TRUE>>_nodes) \/ (DirtyIdle ~> AutoSaveStarted)

\* A prompt has been edited on a dirty canvas shortly before the interval would have
\* run out, and the interval counts from zero again.
C39_IntervalRestartedByEdit ==
    /\ DirtyIdle
    /\ nodes[1].prompt = "a cat"
    /\ editor.sinceRestart = 0
    /\ ~editor.isSavingRef
    /\ last.op = "step"

\* ------------------------------------------------------------------ answers for nodes that are gone
\* A step in which the outcome of a generation, or the answer of a status check,
\* reaches the client for a node that is not on the canvas.
OutcomeForGoneNode ==
    /\ last'.op \in {"response", "networkError", "extractionEnds", "timerFires",
                     "checkStatus"}
    /\ last'.node \notin DOMAIN nodes

\* C40: the outcome of a generation and the result of a recovery check that arrive
\* for a node that has been deleted, or that New canvas has removed, leave the node
\* list exactly as it is: the node is not put back and no other node changes.
C40_LateOutcomeChangesNothing ==
    [][OutcomeForGoneNode => nodes' = nodes]_vars

\* The answer of a successful generation has arrived for a deleted node while the
\* other node is generating.
C40_AnswerAfterDelete ==
    /\ last.op = "response"
    /\ last.info = "delivered"
    /\ last.pre = "absent"
    /\ last.node \notin DOMAIN nodes
    /\ \E m \in DOMAIN nodes : nodes[m].status = LOADING

\* A status check has found a stored result for a node of the canvas before New canvas.
C40_RecoveryAfterNewCanvas ==
    /\ last.op = "checkStatus"
    /\ last.info = "success"
    /\ last.node \notin DOMAIN nodes
    /\ editor.canvas = 1

====
